---- MODULE Spec2Model ----
(***************************************************************************)
(* A model of the Bhagavad Gita chatbot: the retriever                     *)
(* (src/rag/retriever.py), the answer assembly (src/rag/answer.py), the    *)
(* request handlers (src/api.py, src/app.py), the load-or-build indexer    *)
(* (src/rag/indexer.py) and the helpers of src/rag/utils.py they use.      *)
(*                                                                         *)
(* Strings the code inspects character by character (queries, citation     *)
(* strings, verse ids, verse texts, answers) are sequences of              *)
(* one-character strings.  Similarity                                      *)
(* scores are integers in hundredths: 10 stands for 0.1, 100 for 1.0.      *)
(* Python's None is a record [kind |-> "none"] where a value or None may   *)
(* be returned, and an empty tuple where an optional argument is omitted.  *)
(***************************************************************************)
EXTENDS Integers, Sequences, FiniteSets

VARIABLES
    docs,      \* GitaRetriever.docs: the verse list, parallel to the index
    index,     \* GitaRetriever.index: index[i] is the inner product of vector i
               \* with the embedding of the probe query (model.encode + normalize_L2)
    tieAsc,    \* how the flat index orders hits of equal score (fixed per index)
    files,     \* the persisted artifacts: the index file and the verse-list file
    dataset,   \* the rows of the raw dataset, as the dataset hub serves them
    op,        \* the last operation called, with its arguments
    ret,       \* the value that operation returned
    calls,     \* the external calls (embedding function, vector index) it made
    raised     \* the exception that escaped it ("none" when it returned)

vars == <<docs, index, tieAsc, files, dataset, op, ret, calls, raised>>

---------------------------------------------------------------------------
(* Bounds of the model *)

MaxDocs == 6
MaxK == 3
MaxCiteDocs == 2
MaxCitations == 2

(* Program constants *)

ScoreFloor == 10
ContextEnd == 5
PerfectScore == 100

---------------------------------------------------------------------------
(* Python values *)

None == [kind |-> "none"]
NoK == <<>>
SomeK(k) == <<k>>
NoSanskrit == <<"<None>">>
Idle == [name |-> "idle"]

(* A file that does not exist, and the state of the disk with no artifact *)
Absent == [kind |-> "absent"]
NoFiles == [index |-> Absent, docs |-> Absent]

Min(a, b) == IF a <= b THEN a ELSE b
Max(a, b) == IF a >= b THEN a ELSE b

(* seq[lo:hi] for 0 <= lo, 0 <= hi *)
PySlice(seq, lo, hi) ==
    LET h == Min(hi, Len(seq))
    IN  IF lo >= h THEN <<>> ELSE SubSeq(seq, lo + 1, h)

(* seq[:k] for any integer k: a negative k counts from the end *)
PySliceTo(seq, k) ==
    IF k >= 0 THEN PySlice(seq, 0, k) ELSE PySlice(seq, 0, Max(Len(seq) + k, 0))

Whitespace == {" ", "\t", "\n"}

RECURSIVE LStripChars(_, _)
LStripChars(s, chars) ==
    IF s = <<>> THEN <<>>
    ELSE IF Head(s) \in chars THEN LStripChars(Tail(s), chars)
    ELSE s

RECURSIVE RStripChars(_, _)
RStripChars(s, chars) ==
    IF s = <<>> THEN <<>>
    ELSE IF s[Len(s)] \in chars THEN RStripChars(SubSeq(s, 1, Len(s) - 1), chars)
    ELSE s

(* str.strip(chars) *)
StripChars(s, chars) == RStripChars(LStripChars(s, chars), chars)

(* str.strip() *)
Strip(s) == StripChars(s, Whitespace)

---------------------------------------------------------------------------
(* Verse records *)

DigitChars == <<"0", "1", "2", "3", "4", "5", "6", "7", "8", "9">>

RECURSIVE Decimal(_)
Decimal(n) ==
    IF n < 10 THEN <<DigitChars[n + 1]>>
    ELSE Decimal(n \div 10) \o <<DigitChars[(n % 10) + 1]>>

(* format(n, "02d"): the sign counts towards the width of two *)
Pad2(n) ==
    IF n < 0 THEN <<"-">> \o Decimal(0 - n)
    ELSE IF n < 10 THEN <<"0">> \o Decimal(n)
    ELSE Decimal(n)

create_verse_id(chapter, verse) == Pad2(chapter) \o <<".">> \o Pad2(verse)

(* str(n) *)
PyStr(n) == IF n < 0 THEN <<"-">> \o Decimal(0 - n) ELSE Decimal(n)

(* The characters [^\x20-\x7E\n] leaves in place: the printable ASCII
   characters (all but the grave accent, which a TLA+ string cannot hold and
   no input of the model uses) and the newline *)
AsciiPrintable ==
    { " ", "!", "\"", "#", "$", "%", "&", "'", "(", ")", "*", "+",
      ",", "-", ".", "/", "0", "1", "2", "3", "4", "5", "6", "7",
      "8", "9", ":", ";", "<", "=", ">", "?", "@", "A", "B", "C",
      "D", "E", "F", "G", "H", "I", "J", "K", "L", "M", "N", "O",
      "P", "Q", "R", "S", "T", "U", "V", "W", "X", "Y", "Z", "[",
      "\\", "]", "^", "_", "a", "b", "c", "d", "e", "f", "g",
      "h", "i", "j", "k", "l", "m", "n", "o", "p", "q", "r", "s",
      "t", "u", "v", "w", "x", "y", "z", "{", "|", "}", "~" }

Printable(ch) == ch \in AsciiPrintable \cup {"\n"}

(* re.sub(r'\s+', ' ', s): every maximal run of whitespace becomes one space *)
RECURSIVE CollapseWhitespace(_, _)
CollapseWhitespace(s, inRun) ==
    IF s = <<>> THEN <<>>
    ELSE IF Head(s) \in Whitespace
    THEN IF inRun THEN CollapseWhitespace(Tail(s), TRUE)
         ELSE <<" ">> \o CollapseWhitespace(Tail(s), TRUE)
    ELSE <<Head(s)>> \o CollapseWhitespace(Tail(s), FALSE)

clean_text(text) ==
    IF text = <<>> THEN <<>>
    ELSE SelectSeq(CollapseWhitespace(Strip(text), FALSE), Printable)

VerseHeader(chapter, verse) ==
    <<"C", "h", "a", "p", "t", "e", "r", " ">> \o PyStr(chapter) \o <<",", " ",
        "V", "e", "r", "s", "e", " ">> \o PyStr(verse)

(* The canonical text of a verse whose row has the sanskrit field given (empty
   when the row has none) and whose cleaned translation is text *)
CanonicalText(chapter, verse, sanskrit, text) ==
    IF sanskrit # <<>>
    THEN VerseHeader(chapter, verse) \o <<"\n">> \o clean_text(sanskrit)
         \o <<"\n", "\n">> \o text
    ELSE VerseHeader(chapter, verse) \o <<"\n", "\n">> \o text

(* The record load_dataset stores for one verse *)
VerseData(chapter, verse, sanskrit, text) ==
    [id |-> create_verse_id(chapter, verse),
     chapter |-> chapter,
     verse |-> verse,
     text |-> CanonicalText(chapter, verse, sanskrit, text),
     sanskrit |-> IF sanskrit # <<>> /\ clean_text(sanskrit) # <<>>
                  THEN clean_text(sanskrit) ELSE NoSanskrit]

---------------------------------------------------------------------------
(* The flat inner-product index *)

(* Hit i comes before hit j: higher score first, equal scores in the index's own order *)
HitBefore(idx, i, j) ==
    \/ idx[i] > idx[j]
    \/ idx[i] = idx[j] /\ (IF tieAsc THEN i < j ELSE i > j)

(* The positions of `left`, best first *)
RECURSIVE BestFirst(_, _)
BestFirst(idx, left) ==
    IF left = {} THEN <<>>
    ELSE LET p == CHOOSE p \in left : \A j \in left \ {p} : HitBefore(idx, p, j)
         IN  <<[score |-> idx[p], idx |-> p - 1]>> \o BestFirst(idx, left \ {p})

Padding(n) == [r \in 1..n |-> [score |-> -100, idx |-> -1]]

(* index.search(query_embedding, topN): (score, position) pairs, best first,
   positions counted from 0, padded with position -1 past the last vector *)
IndexSearch(idx, topN) ==
    LET found == BestFirst(idx, 1..Len(idx))
    IN  IF topN <= Len(idx) THEN SubSeq(found, 1, topN)
        ELSE found \o Padding(topN - Len(idx))

---------------------------------------------------------------------------
(* GitaRetriever.search *)

IsBlankNoStrip(query) == query = <<>>
IsBlank(query) == Strip(query) = <<>>

BelowFloorInclusive(score) == score <= ScoreFloor
BelowFloor(score) == score < ScoreFloor

RankFromZero(i) == i
RankOf(i) == i + 1

SearchResult(doc, score, rank) ==
    [id |-> doc.id,
     chapter |-> doc.chapter,
     verse |-> doc.verse,
     text |-> doc.text,
     sanskrit |-> doc.sanskrit,
     score |-> score,
     rank |-> rank]

PrependResult(results, result) == <<result>> \o results
AppendResult(results, result) == Append(results, result)

(* The hits the loop keeps: a valid position and a score not below the floor *)
Kept(hit) == hit.idx # -1 /\ ~BelowFloor(hit.score)

(* docs[idx] raises IndexError for a kept hit past the end of the verse list *)
SearchRaises(hits) ==
    \E i \in 1..Len(hits) : Kept(hits[i]) /\ hits[i].idx >= Len(docs)

(* The loop of search over enumerate(zip(scores[0], indices[0])), i from 0 *)
RECURSIVE FilterAndRank(_, _, _)
FilterAndRank(hits, i, results) ==
    IF i >= Len(hits) THEN results
    ELSE IF ~Kept(hits[i + 1]) THEN FilterAndRank(hits, i + 1, results)
    ELSE FilterAndRank(hits, i + 1,
            AppendResult(results,
                SearchResult(docs[hits[i + 1].idx + 1], hits[i + 1].score, RankOf(i))))

Truncate(results, k) == IF k = NoK THEN results ELSE PySliceTo(results, k[1])

SearchCalls(query) ==
    IF IsBlank(query) THEN <<>> ELSE <<"model.encode", "index.search">>

SearchRaised(query) ==
    IF IsBlank(query) THEN "none"
    ELSE IF SearchRaises(IndexSearch(index, Len(index))) THEN "IndexError"
    ELSE "none"

SearchValue(query, k) ==
    IF IsBlank(query) THEN <<>>
    ELSE Truncate(FilterAndRank(IndexSearch(index, Len(index)), 0, <<>>), k)

---------------------------------------------------------------------------
(* GitaRetriever.search_best_answer *)

LastMatch(all_results) == all_results[Len(all_results)]
BestMatch(all_results) == all_results[1]

ContextSliceShort(all_results) ==
    IF Len(all_results) > 1 THEN PySlice(all_results, 1, ContextEnd - 1) ELSE <<>>
ContextSlice(all_results) ==
    IF Len(all_results) > 1 THEN PySlice(all_results, 1, ContextEnd) ELSE <<>>

(* `not all_results` *)
FewResults(all_results) == Len(all_results) <= 1
NoResults(all_results) == all_results = <<>>

BestAnswerValue(query) ==
    IF IsBlank(query) THEN None
    ELSE LET all_results == SearchValue(query, NoK)
         IN  IF NoResults(all_results) THEN None
             ELSE [kind |-> "bundle",
                   best_verse |-> BestMatch(all_results),
                   context_verses |-> ContextSlice(all_results),
                   total_matches |-> Len(all_results),
                   confidence |-> BestMatch(all_results).score]

---------------------------------------------------------------------------
(* GitaRetriever.get_verse_by_citation *)

MatchesChapterOnly(doc, chapter, verse) == doc.chapter = chapter
MatchesCitation(doc, chapter, verse) == doc.chapter = chapter /\ doc.verse = verse

(* The linear scan over self.docs from position i: the first match wins *)
RECURSIVE ScanDocs(_, _, _)
ScanDocs(i, chapter, verse) ==
    IF i > Len(docs) THEN None
    ELSE IF MatchesCitation(docs[i], chapter, verse)
    THEN [kind |-> "verse", value |-> SearchResult(docs[i], PerfectScore, 1)]
    ELSE ScanDocs(i + 1, chapter, verse)

GetVerseValue(chapter, verse) == ScanDocs(1, chapter, verse)

---------------------------------------------------------------------------
(* GitaRetriever.validate_citations *)

IsDigit(ch) == \E d \in 1..Len(DigitChars) : DigitChars[d] = ch
DigitValue(ch) == (CHOOSE d \in 1..Len(DigitChars) : DigitChars[d] = ch) - 1

RECURSIVE DigitsValue(_)
DigitsValue(ds) ==
    IF ds = <<>> THEN 0
    ELSE 10 * DigitsValue(SubSeq(ds, 1, Len(ds) - 1)) + DigitValue(ds[Len(ds)])

AllDigits(ds) == ds # <<>> /\ \A i \in 1..Len(ds) : IsDigit(ds[i])

(* int(s) of a string: surrounding whitespace and one sign are accepted;
   anything else but decimal digits raises ValueError (ok = FALSE) *)
PyInt(s) ==
    LET t == Strip(s)
        signed == t # <<>> /\ Head(t) \in {"+", "-"}
        ds == IF signed THEN Tail(t) ELSE t
    IN  IF AllDigits(ds)
        THEN [ok |-> TRUE,
              value |-> IF signed /\ Head(t) = "-" THEN 0 - DigitsValue(ds)
                        ELSE DigitsValue(ds)]
        ELSE [ok |-> FALSE, value |-> 0]

(* s.split(sep): the pieces between the separators, empty pieces kept *)
RECURSIVE SplitFrom(_, _, _)
SplitFrom(s, sep, piece) ==
    IF s = <<>> THEN <<piece>>
    ELSE IF Head(s) = sep THEN <<piece>> \o SplitFrom(Tail(s), sep, <<>>)
    ELSE SplitFrom(Tail(s), sep, Append(piece, Head(s)))

Split(s, sep) == SplitFrom(s, sep, <<>>)

(* chapter, verse = map(int, citation.strip('[]').split('.')): ValueError
   (ok = FALSE) unless there are exactly two pieces and int accepts both *)
ParseCitation(citation) ==
    LET pieces == Split(StripChars(citation, {"[", "]"}), ".")
    IN  IF Len(pieces) = 2 /\ PyInt(pieces[1]).ok /\ PyInt(pieces[2]).ok
        THEN [ok |-> TRUE, chapter |-> PyInt(pieces[1]).value,
              verse |-> PyInt(pieces[2]).value]
        ELSE [ok |-> FALSE, chapter |-> 0, verse |-> 0]

ValidateOne(citation) ==
    LET parsed == ParseCitation(citation)
    IN  IF parsed.ok
        THEN [citation |-> citation,
              exists |-> GetVerseValue(parsed.chapter, parsed.verse) # None,
              verse_data |-> GetVerseValue(parsed.chapter, parsed.verse)]
        ELSE [citation |-> citation, exists |-> FALSE, verse_data |-> None]

ValidateValue(citations) == [i \in 1..Len(citations) |-> ValidateOne(citations[i])]

---------------------------------------------------------------------------
(* Inputs and initial states of the similarity-search specification *)

BlankQueries == {<<>>, <<" ", "\t">>}
ProbeQuery == <<"d", "u", "t", "y">>
Queries == BlankQueries \cup {ProbeQuery}

KInputs == {NoK} \cup {SomeK(k) : k \in -1..MaxK}

ScoreVals == {5, 10, 40}

Sanskrit == <<"d", "h", "a", "r", "m", "a">>

Bodies ==
    << <<"a", "c", "t", " ", "w", "i", "t", "h", "o", "u", "t", " ", "a", "t",
        "t", "a", "c", "h", "m", "e", "n", "t">>,
       <<"t", "h", "e", " ", "s", "e", "l", "f", " ", "i", "s", " ", "e", "t",
           "e", "r", "n", "a", "l">>,
       <<"s", "t", "e", "a", "d", "y", " ", "t", "h", "e", " ", "m", "i", "n",
           "d">>,
       <<"a", "c", "t", " ", "a", "g", "a", "i", "n">>,
       <<"s", "u", "r", "r", "e", "n", "d", "e", "r">>,
       <<"k", "n", "o", "w", " ", "t", "h", "e", " ", "f", "i", "e", "l",
           "d">>,
       <<"t", "h", "r", "e", "e", " ", "g", "u", "n", "a", "s">>,
       <<"t", "h", "e", " ", "s", "u", "p", "r", "e", "m", "e", " ", "p", "e",
           "r", "s", "o", "n">> >>

(* A corpus as load_dataset leaves it: rows in dataset order, every second one
   without sanskrit, and (load_dataset does not deduplicate) position 4 a second
   record of the pair at position 2 *)
CorpusPair(i) == IF i = 4 THEN 2 ELSE i

CorpusVerse(i) ==
    VerseData(((CorpusPair(i) - 1) \div 2) + 1,
              ((CorpusPair(i) - 1) % 2) + 1,
              IF i % 2 = 1 THEN Sanskrit ELSE <<>>,
              Bodies[((i - 1) % Len(Bodies)) + 1])

Corpus(n) == [i \in 1..n |-> CorpusVerse(i)]

Init ==
    /\ \E n \in 1..MaxDocs :
        /\ docs = Corpus(n)
        /\ index \in [1..n -> ScoreVals]
    /\ tieAsc \in BOOLEAN
    /\ files = NoFiles
    /\ dataset = <<>>
    /\ op = Idle
    /\ ret = None
    /\ calls = <<>>
    /\ raised = "none"

Search(query, k) ==
    /\ op = Idle
    /\ op' = [name |-> "search", query |-> query, k |-> k]
    /\ calls' = SearchCalls(query)
    /\ raised' = SearchRaised(query)
    /\ ret' = IF SearchRaised(query) = "none"
              THEN [kind |-> "list", items |-> SearchValue(query, k)]
              ELSE None
    /\ UNCHANGED <<docs, index, tieAsc, files, dataset>>

SearchBestAnswer(query) ==
    /\ op = Idle
    /\ op' = [name |-> "search_best_answer", query |-> query]
    /\ calls' = SearchCalls(query)
    /\ raised' = SearchRaised(query)
    /\ ret' = IF SearchRaised(query) = "none" THEN BestAnswerValue(query) ELSE None
    /\ UNCHANGED <<docs, index, tieAsc, files, dataset>>

(* The caller has consumed the result: results are transient, one per call *)
Return ==
    /\ op # Idle
    /\ op' = Idle
    /\ ret' = None
    /\ calls' = <<>>
    /\ raised' = "none"
    /\ UNCHANGED <<docs, index, tieAsc, files, dataset>>

Next ==
    \/ \E query \in Queries, k \in KInputs : Search(query, k)
    \/ \E query \in Queries : SearchBestAnswer(query)
    \/ Return

Spec == Init /\ [][Next]_vars

---------------------------------------------------------------------------
(* Inputs and initial states of the citation-lookup specification *)

CitePairs == {<<1, 1>>, <<1, 2>>, <<2, 1>>}

CiteVerses ==
    {VerseData(p[1], p[2], Sanskrit, Bodies[1]) : p \in CitePairs}
    \cup {VerseData(p[1], p[2], <<>>, Bodies[2]) : p \in CitePairs}

ChapterInputs == 1..2
VerseInputs == 1..2

CitationInputs ==
    { <<"[", "1", ".", "1", "]">>,
      <<"[", "1", ".", "2", "]">>,
      <<"[", "2", ".", "2", "]">>,
      <<"1", ".", "1">>,
      <<"[", "[", "1", ".", "2", "]", "]">>,
      <<"[", "1", ".", "x", "]">>,
      <<"[", "1", "1", "]">>,
      <<"[", "1", ".", "1", ".", "2", "]">> }

SeqsUpTo(S, n) == UNION {[1..m -> S] : m \in 0..n}

InitCite ==
    /\ \E n \in 1..MaxCiteDocs :
        /\ docs \in [1..n -> CiteVerses]
        /\ index = [i \in 1..n |-> 40]
    /\ tieAsc = TRUE
    /\ files = NoFiles
    /\ dataset = <<>>
    /\ op = Idle
    /\ ret = None
    /\ calls = <<>>
    /\ raised = "none"

GetVerseByCitation(chapter, verse) ==
    /\ op = Idle
    /\ op' = [name |-> "get_verse_by_citation", chapter |-> chapter, verse |-> verse]
    /\ calls' = <<>>
    /\ raised' = "none"
    /\ ret' = GetVerseValue(chapter, verse)
    /\ UNCHANGED <<docs, index, tieAsc, files, dataset>>

ValidateCitations(citations) ==
    /\ op = Idle
    /\ op' = [name |-> "validate_citations", citations |-> citations]
    /\ calls' = <<>>
    /\ raised' = "none"
    /\ ret' = [kind |-> "reports", items |-> ValidateValue(citations)]
    /\ UNCHANGED <<docs, index, tieAsc, files, dataset>>

NextCite ==
    \/ \E chapter \in ChapterInputs, verse \in VerseInputs :
           GetVerseByCitation(chapter, verse)
    \/ \E citations \in SeqsUpTo(CitationInputs, MaxCitations) :
           ValidateCitations(citations)
    \/ Return

SpecCite == InitCite /\ [][NextCite]_vars

---------------------------------------------------------------------------
(* Properties of search and search_best_answer, checked under Spec *)

(* The positions of the index whose score passes the floor *)
Passing == {i \in 1..Len(index) : index[i] >= ScoreFloor}

(* What a result says apart from its rank, and what position i should yield *)
Core(r) ==
    [id |-> r.id, chapter |-> r.chapter, verse |-> r.verse, text |-> r.text,
     sanskrit |-> r.sanskrit, score |-> r.score]

Expected(i) ==
    [id |-> docs[i].id, chapter |-> docs[i].chapter, verse |-> docs[i].verse,
     text |-> docs[i].text, sanskrit |-> docs[i].sanskrit, score |-> index[i]]

CountIn(results, x) == Cardinality({j \in 1..Len(results) : Core(results[j]) = x})
CountAt(positions, x) == Cardinality({i \in positions : Expected(i) = x})

Prefix(seq, n) == IF n <= 0 THEN <<>> ELSE SubSeq(seq, 1, Min(n, Len(seq)))

Searched == op.name = "search" /\ raised = "none"
SearchedProbe == Searched /\ op.query \notin BlankQueries
Bundled == op.name = "search_best_answer" /\ ret.kind = "bundle"

(* C1: for a non-blank query, search(query, k=None) returns exactly the indexed
   verses whose score is >= 0.1, each once: nothing below the floor is returned,
   and no verse at or above it (a score of exactly 0.1 included) is missing. *)
C1_ExactlyFloorPassing ==
    (SearchedProbe /\ op.k = NoK) =>
        /\ Len(ret.items) = Cardinality(Passing)
        /\ \A j \in 1..Len(ret.items) : ret.items[j].score >= ScoreFloor
        /\ \A i \in Passing :
               CountIn(ret.items, Expected(i)) = CountAt(Passing, Expected(i))

C1_Witness ==
    /\ SearchedProbe /\ op.k = NoK
    /\ \E i \in Passing : index[i] = ScoreFloor
    /\ \E i \in 1..Len(index) : index[i] < ScoreFloor
    /\ Len(ret.items) >= 3

(* C2, as stated: every result scores strictly more than the result after it,
   also when two indexed verses are equally similar to the query. *)
C2_StrictlyDescending ==
    Searched =>
        \A j \in 1..(Len(ret.items) - 1) : ret.items[j].score > ret.items[j + 1].score

(* C2, amended: the results are in non-increasing score order; verses of equal
   similarity are both returned, next to each other, with equal scores. *)
C2_NonIncreasing ==
    Searched =>
        \A j \in 1..(Len(ret.items) - 1) : ret.items[j].score >= ret.items[j + 1].score

C2_Witness ==
    /\ Searched
    /\ \E j \in 1..(Len(ret.items) - 1) : ret.items[j].score = ret.items[j + 1].score
    /\ \E j \in 1..(Len(ret.items) - 1) : ret.items[j].score > ret.items[j + 1].score

(* C3: search with an empty or whitespace-only query returns an empty sequence,
   raises nothing, and calls neither the embedding function nor the index. *)
C3_BlankQueryEmpty ==
    (op.name = "search" /\ op.query \in BlankQueries) =>
        /\ raised = "none"
        /\ ret = [kind |-> "list", items |-> <<>>]
        /\ calls = <<>>

C3_Witness ==
    /\ op.name = "search"
    /\ op.query = <<" ", "\t">>
    /\ ret = [kind |-> "list", items |-> <<>>]
    /\ Passing # {}

(* C4: for every integer k a caller supplies, search(query, k) returns at most k
   results, and they are the first min(k, n) of the n results of
   search(query, None), in the same order. *)
C4_TruncatedToK ==
    (Searched /\ op.k # NoK) =>
        LET full == SearchValue(op.query, NoK)
        IN  /\ Len(ret.items) <= op.k[1]
            /\ ret.items = Prefix(full, Min(op.k[1], Len(full)))

(* C5: the rank of the j-th returned result is j, whichever raw hits the loop
   discarded. *)
C5_RankIsPosition ==
    Searched => \A j \in 1..Len(ret.items) : ret.items[j].rank = j

C5_Witness ==
    /\ SearchedProbe /\ op.k = NoK
    /\ Len(ret.items) >= 2
    /\ Len(ret.items) < Len(index)
    /\ ret.items[Len(ret.items)].rank = Len(ret.items)

(* C6: search_best_answer returns None exactly when the query is blank or no
   indexed verse scores >= 0.1; otherwise it returns a bundle whose best_verse
   is a verse of the corpus. *)
C6_NoneIffNoMatch ==
    (op.name = "search_best_answer" /\ raised = "none") =>
        /\ (ret.kind = "none") <=> (op.query \in BlankQueries \/ Passing = {})
        /\ ret.kind # "none" =>
               /\ ret.kind = "bundle"
               /\ \E i \in Passing : Core(ret.best_verse) = Expected(i)

C6_Witness ==
    /\ Bundled
    /\ Cardinality(Passing) = 1
    /\ \A i \in Passing : index[i] = ScoreFloor

(* C7: in a bundle, with n the number of floor-passing results of
   search(query, None): best_verse is result 1, context_verses is results
   2..min(5, n) in rank order (min(4, n-1) of them, best_verse not among them),
   confidence is best_verse.score and total_matches is n. *)
C7_BundleShape ==
    Bundled =>
        LET all == SearchValue(op.query, NoK)
            n == Cardinality(Passing)
        IN  /\ Len(all) = n
            /\ ret.best_verse = all[1]
            /\ ret.context_verses = SubSeq(all, 2, Min(5, n))
            /\ Len(ret.context_verses) = Min(4, n - 1)
            /\ \A j \in 1..Len(ret.context_verses) :
                   ret.context_verses[j] # ret.best_verse
            /\ ret.confidence = ret.best_verse.score
            /\ ret.total_matches = n
            /\ ret.total_matches >= 1 + Len(ret.context_verses)

C7_Witness ==
    /\ Bundled
    /\ ret.total_matches >= 6
    /\ Len(ret.context_verses) = 4

(* C8: in a bundle, best_verse scores at least as high as every verse of the
   corpus, and every context verse scores at least as high as every verse that
   is neither best nor context. *)
C8_GloballyBest ==
    Bundled =>
        LET bundle == <<ret.best_verse>> \o ret.context_verses
            all == 1..Len(index)
        IN  /\ \A i \in all : ret.best_verse.score >= index[i]
            /\ \A j \in 1..Len(bundle) :
                   CountIn(bundle, Core(bundle[j])) <= CountAt(all, Core(bundle[j]))
            /\ \A i \in all :
                   CountAt(all, Expected(i)) > CountIn(bundle, Expected(i)) =>
                       \A j \in 1..Len(ret.context_verses) :
                           ret.context_verses[j].score >= index[i]

C8_Witness ==
    /\ Bundled
    /\ Len(ret.context_verses) = 4
    /\ Len(index) > 5
    /\ \E i \in 1..Len(index) : index[i] < ret.best_verse.score
    /\ \E i \in 1..Len(index) : index[i] < ret.context_verses[4].score

---------------------------------------------------------------------------
(* Properties of get_verse_by_citation and validate_citations, checked under
   SpecCite *)

HasPair(chapter, verse) ==
    \E i \in 1..Len(docs) : docs[i].chapter = chapter /\ docs[i].verse = verse

(* C9: if some record of the verse list has exactly the pair asked for,
   get_verse_by_citation returns score 1.0, rank 1 and the id, chapter, verse,
   text and sanskrit of such a record; if none has it, it returns None. *)
C9_CitationLookup ==
    op.name = "get_verse_by_citation" =>
        /\ HasPair(op.chapter, op.verse) =>
               /\ ret.kind = "verse"
               /\ ret.value.score = 100
               /\ ret.value.rank = 1
               /\ \E i \in 1..Len(docs) :
                      /\ docs[i].chapter = op.chapter /\ docs[i].verse = op.verse
                      /\ ret.value.id = docs[i].id
                      /\ ret.value.chapter = docs[i].chapter
                      /\ ret.value.verse = docs[i].verse
                      /\ ret.value.text = docs[i].text
                      /\ ret.value.sanskrit = docs[i].sanskrit
        /\ ~HasPair(op.chapter, op.verse) => ret = None

(* Two records of one pair with different texts: the lookup answers with the first *)
C9_Witness ==
    /\ op.name = "get_verse_by_citation"
    /\ ret.kind = "verse"
    /\ Len(docs) >= 2
    /\ docs[1].chapter = op.chapter /\ docs[1].verse = op.verse
    /\ docs[2].chapter = op.chapter /\ docs[2].verse = op.verse
    /\ docs[1].text # docs[2].text
    /\ ret.value.text = docs[1].text

(* A citation of the exact textual form [chapter.verse]: an opening bracket,
   decimal digits, a period, decimal digits, a closing bracket *)
WellFormed(citation) ==
    /\ Len(citation) >= 5
    /\ Head(citation) = "["
    /\ citation[Len(citation)] = "]"
    /\ LET pieces == Split(SubSeq(citation, 2, Len(citation) - 1), ".")
       IN  Len(pieces) = 2 /\ AllDigits(pieces[1]) /\ AllDigits(pieces[2])

CitedChapter(citation) ==
    DigitsValue(Split(SubSeq(citation, 2, Len(citation) - 1), ".")[1])
CitedVerse(citation) ==
    DigitsValue(Split(SubSeq(citation, 2, Len(citation) - 1), ".")[2])

(* C10: validate_citations never raises and returns one report per input, in
   input order; an input that is not of the exact form [chapter.verse] is
   reported exists = False, and a well-formed one is reported exists = True
   exactly when get_verse_by_citation finds its pair. *)
C10_MalformedNeverExists ==
    op.name = "validate_citations" =>
        /\ raised = "none"
        /\ Len(ret.items) = Len(op.citations)
        /\ \A i \in 1..Len(op.citations) :
               /\ ret.items[i].citation = op.citations[i]
               /\ ~WellFormed(op.citations[i]) => ~ret.items[i].exists
               /\ WellFormed(op.citations[i]) =>
                      (ret.items[i].exists <=>
                          HasPair(CitedChapter(op.citations[i]),
                                  CitedVerse(op.citations[i])))

---------------------------------------------------------------------------
(* Citations in answers: build_citation and extract_citations_from_text *)

build_citation(chapter, verse) ==
    <<"[">> \o PyStr(chapter) \o <<".">> \o PyStr(verse) \o <<"]">>

(* The length of the longest prefix of s made of decimal digits: \d+ is greedy *)
RECURSIVE DigitRun(_)
DigitRun(s) ==
    IF s = <<>> \/ ~IsDigit(Head(s)) THEN 0 ELSE 1 + DigitRun(Tail(s))

(* The length of the match of \[(\d+)\.(\d+)\] at the start of s, 0 if none *)
MatchLen(s) ==
    IF s = <<>> \/ Head(s) # "[" THEN 0
    ELSE LET a == DigitRun(Tail(s))
             afterA == SubSeq(s, a + 2, Len(s))
         IN  IF a = 0 \/ afterA = <<>> \/ Head(afterA) # "." THEN 0
             ELSE LET b == DigitRun(Tail(afterA))
                      afterB == SubSeq(afterA, b + 2, Len(afterA))
                  IN  IF b = 0 \/ afterB = <<>> \/ Head(afterB) # "]" THEN 0
                      ELSE a + b + 3

(* re.findall: the matches from left to right, none overlapping; each match
   is rebuilt as "[" + group 1 + "." + group 2 + "]", the matched text itself.
   A match holds no "[" after its first character, so no match starts inside
   another and the scan finds the match at every position where one starts *)
extract_citations_from_text(text) ==
    LET starts == {i \in 1..Len(text) :
                      text[i] = "[" /\ MatchLen(SubSeq(text, i, Len(text))) > 0}
        nth(n) == CHOOSE i \in starts : Cardinality({j \in starts : j < i}) = n - 1
    IN  [n \in 1..Cardinality(starts) |->
            SubSeq(text, nth(n), nth(n) + MatchLen(SubSeq(text, nth(n), Len(text))) - 1)]

Range(seq) == {seq[i] : i \in 1..Len(seq)}

---------------------------------------------------------------------------
(* GitaAnswerer.validate_answer *)

(* Only the first citation of the answer *)
FirstCitationOnly(answer) ==
    IF extract_citations_from_text(answer) = <<>> THEN {}
    ELSE {extract_citations_from_text(answer)[1]}
(* set(extract_citations_from_text(answer)) *)
AnswerCitations(answer) == Range(extract_citations_from_text(answer))

PassageCitations(passages) ==
    {build_citation(passages[i].chapter, passages[i].verse) : i \in 1..Len(passages)}

(* The report; its three lists are built from sets, so they are kept as sets *)
ValidateAnswerValue(answer, passages) ==
    LET invalid_citations == AnswerCitations(answer) \ PassageCitations(passages)
    IN  [kind |-> "report",
         valid |-> Cardinality(invalid_citations) = 0,
         invalid_citations |-> invalid_citations,
         answer_citations |-> AnswerCitations(answer),
         passage_citations |-> PassageCitations(passages)]

---------------------------------------------------------------------------
(* GitaAnswerer.extractive_answer *)

NotFoundMessage ==
    <<"I", " ", "c", "o", "u", "l", "d", "n", "'", "t", " ", "f", "i", "n",
        "d", " ", "r", "e", "l", "e", "v", "a", "n", "t", " ", "v", "e", "r",
        "s", "e", "s", " ", "i", "n", " ", "t", "h", "e", " ", "B", "h", "a",
        "g", "a", "v", "a", "d", " ", "G", "i", "t", "a", " ", "t", "o", " ",
        "a", "n", "s", "w", "e", "r", " ", "y", "o", "u", "r", " ", "q", "u",
        "e", "s", "t", "i", "o", "n", ".">>

MinSentenceLen == 20

UpperChars == <<"A", "B", "C", "D", "E", "F", "G", "H", "I", "J", "K", "L",
    "M", "N", "O", "P", "Q", "R", "S", "T", "U", "V", "W", "X", "Y", "Z">>
LowerChars == <<"a", "b", "c", "d", "e", "f", "g", "h", "i", "j", "k", "l",
    "m", "n", "o", "p", "q", "r", "s", "t", "u", "v", "w", "x", "y", "z">>

LowerChar(ch) ==
    IF \E i \in 1..Len(UpperChars) : UpperChars[i] = ch
    THEN LowerChars[CHOOSE i \in 1..Len(UpperChars) : UpperChars[i] = ch]
    ELSE ch

(* str.lower() *)
Lower(s) == [i \in 1..Len(s) |-> LowerChar(s[i])]

(* set(s.lower().split()): the maximal runs of non-whitespace characters of
   the lower-cased text *)
WordSet(s) ==
    LET t == Lower(s)
        starts == {i \in 1..Len(t) :
                      t[i] \notin Whitespace /\ (i = 1 \/ t[i - 1] \in Whitespace)}
        end(i) == CHOOSE j \in i..Len(t) :
                      /\ \A m \in i..j : t[m] \notin Whitespace
                      /\ (j = Len(t) \/ t[j + 1] \in Whitespace)
    IN  {SubSeq(t, i, end(i)) : i \in starts}

QuestionEnd(ch) == ch \in {"!", "?"}
SentenceEnd(ch) == ch \in {".", "!", "?"}

(* re.split(r'[.!?]+', text): the pieces between the runs of sentence-ending
   punctuation, empty pieces at either end kept.  A piece starts at the
   beginning of the text and after every run, and ends before the next
   sentence-ending character *)
Sentences(text) ==
    LET n == Len(text)
        starts == {1} \cup {i \in 2..(n + 1) :
                               /\ SentenceEnd(text[i - 1])
                               /\ (i = n + 1 \/ ~SentenceEnd(text[i]))}
        nth(k) == CHOOSE i \in starts : Cardinality({j \in starts : j < i}) = k - 1
        stop(i) == CHOOSE e \in i..(n + 1) :
                       /\ (e = n + 1 \/ SentenceEnd(text[e]))
                       /\ \A m \in i..(e - 1) : ~SentenceEnd(text[m])
    IN  [k \in 1..Cardinality(starts) |-> SubSeq(text, nth(k), stop(nth(k)) - 1)]

WordCount(sentence, query) == Cardinality(WordSet(sentence))
(* len(query_words.intersection(sentence_words)) *)
SentenceScore(sentence, query) ==
    Cardinality(WordSet(query) \cap WordSet(sentence))

(* The scan over the sentences from position i: a stripped sentence of at
   least MinSentenceLen characters replaces the best one only when its score
   is strictly higher; best starts empty with score 0 *)
RECURSIVE BestSentence(_, _, _, _, _)
BestSentence(sentences, i, query, best, bestScore) ==
    IF i > Len(sentences) THEN best
    ELSE LET sentence == Strip(sentences[i])
         IN  IF Len(sentence) >= MinSentenceLen
                /\ SentenceScore(sentence, query) > bestScore
             THEN BestSentence(sentences, i + 1, query, sentence,
                               SentenceScore(sentence, query))
             ELSE BestSentence(sentences, i + 1, query, best, bestScore)

(* verse_text.split('.')[0] + "." *)
FirstPeriodPrefix(text) == Split(text, ".")[1] \o <<".">>

SelectedSentence(query, text) ==
    LET best == BestSentence(Sentences(text), 1, query, <<>>, 0)
    IN  IF best = <<>> THEN FirstPeriodPrefix(text) ELSE best

(* sep.join(items) *)
RECURSIVE Join(_, _)
Join(items, sep) ==
    IF items = <<>> THEN <<>>
    ELSE IF Len(items) = 1 THEN items[1]
    ELSE items[1] \o sep \o Join(Tail(items), sep)

AllFollowing(passages) == PySlice(passages, 1, Len(passages))
(* passages[1:3] *)
ContextPassages(passages) == PySlice(passages, 1, 3)

TeachesPrefix == <<"T", "h", "e", " ", "B", "h", "a", "g", "a", "v", "a", "d",
    " ", "G", "i", "t", "a", " ", "t", "e", "a", "c", "h", "e", "s", ":",
    " ">>
RelatedPrefix == <<"\n", "\n", "R", "e", "l", "a", "t", "e", "d", " ", "g",
    "u", "i", "d", "a", "n", "c", "e", ":", " ">>

TeachesBlock(query, passages) ==
    TeachesPrefix \o SelectedSentence(query, passages[1].text) \o <<" ">>
    \o build_citation(passages[1].chapter, passages[1].verse)

RelatedBlock(passages) ==
    LET context_verses == ContextPassages(passages)
    IN  RelatedPrefix
        \o Join([i \in 1..Len(context_verses) |->
                    build_citation(context_verses[i].chapter, context_verses[i].verse)],
                <<",", " ">>)

ExtractiveAnswerValue(query, passages) ==
    IF passages = <<>> THEN NotFoundMessage
    ELSE IF Len(passages) > 1
    THEN TeachesBlock(query, passages) \o RelatedBlock(passages)
    ELSE TeachesBlock(query, passages)

---------------------------------------------------------------------------
(* GitaAnswerer.generate_answer and its generation backends *)

Backends == {"gemini", "openai", "ollama"}

(* What can happen inside generate_answer_gemini / _openai / _ollama:
   no API key or no connection (None before any request), the client
   import or configuration fails, the request raises, the request times out,
   the response has no content, its text is whitespace, or it has text *)
BackendErrors == {"import_error", "api_error", "timeout"}
BackendOutcomes ==
    {"no_credentials", "no_content", "blank", "text"} \cup BackendErrors

GeneratedText == <<" ", "A", "c", "t", ".", " ", " ", "[", "2", ".", "4", "7",
    "]", " ">>
BlankText == <<" ", "\n">>

CaughtApiErrorOnly(outcome) == outcome = "api_error"
(* except Exception around the whole body of each backend function *)
Caught(outcome) == outcome \in BackendErrors

(* The Optional[str] a backend function returns, when it returns *)
BackendAnswer(outcome) ==
    IF outcome = "text" THEN [kind |-> "str", text |-> Strip(GeneratedText)]
    ELSE IF outcome = "blank" THEN [kind |-> "str", text |-> Strip(BlankText)]
    ELSE None

(* if answer: *)
Truthy(answer) == answer # None /\ answer.text # <<>>

(* The dispatch on model_type alone, the empty check left aside *)
BackendRequested(passages, model_type) == model_type \in Backends
(* if not passages: return ... comes before the dispatch on model_type *)
BackendUsed(passages, model_type) ==
    passages # <<>> /\ model_type \in Backends

GenerateCalls(passages, model_type) ==
    IF BackendUsed(passages, model_type) THEN <<model_type>> ELSE <<>>

GenerateRaised(passages, model_type, outcome) ==
    IF BackendUsed(passages, model_type)
       /\ outcome \in BackendErrors /\ ~Caught(outcome)
    THEN "Exception" ELSE "none"

GenerateAnswerValue(query, passages, model_type, outcome) ==
    IF passages = <<>> THEN NotFoundMessage
    ELSE IF model_type \in Backends /\ Truthy(BackendAnswer(outcome))
    THEN BackendAnswer(outcome).text
    ELSE ExtractiveAnswerValue(query, passages)

(* The mode that produced the answer generate_answer returns *)
ModeUsed(passages, model_type, outcome) ==
    IF BackendUsed(passages, model_type) /\ Truthy(BackendAnswer(outcome))
    THEN model_type ELSE "extractive"

---------------------------------------------------------------------------
(* Inputs and initial states of the answer-assembly specification *)

MaxPassages == 4
MaxCitedPassages == 2
MaxPieces == 2

Passage(chapter, verse, text) == [chapter |-> chapter, verse |-> verse, text |-> text]

(* A canonical verse text whose body names another verse, a caller-supplied
   text with no sentence of MinSentenceLen characters, and one without a period *)
PassageInputs ==
    { Passage(2, 47, CanonicalText(2, 47, <<>>,
                  <<"D", "o", " ", "y", "o", "u", "r", " ", "d", "u", "t", "y",
                      ".", " ", "S", "e", "e", " ", "[", "9", ".", "9", "]",
                      " ", "f", "o", "r", " ", "t", "h", "e", " ", "d", "u",
                      "t", "y", " ", "o", "f", " ", "a", " ", "k", "i", "n",
                      "g", "!">>)),
      Passage(3, 1, <<"R", "e", "f", "e", "r", " ", "t", "o", " ", "[", "9",
          ".", "9", "]", " ", "a", "n", "d", " ", "a", "c", "t">>),
      Passage(9, 9, <<"A", "c", "t">>) }

AnswerQueries == { <<>>, <<"d", "u", "t", "y">>, <<"A", " ", "K", "i", "n",
    "g", " ", "D", "U", "T", "Y">> }

ModelTypes == Backends \cup {"extractive", "other"}

OutcomesFor(model_type) ==
    IF model_type \in Backends THEN BackendOutcomes ELSE {"unused"}

AnswerPieces ==
    { <<"[", "2", ".", "4", "7", "]">>,
      <<"[", "3", ".", "1", "]">>,
      <<"[", "9", ".", "x", "]">>,
      <<"[">>,
      <<"[", "2">>,
      <<".", "1", "]", " ">> }

RECURSIVE Concat(_)
Concat(pieces) == IF pieces = <<>> THEN <<>> ELSE Head(pieces) \o Concat(Tail(pieces))

AnswerInputs == {Concat(pieces) : pieces \in SeqsUpTo(AnswerPieces, MaxPieces)}

InitAnswer ==
    /\ docs = <<>>
    /\ index = <<>>
    /\ tieAsc = TRUE
    /\ files = NoFiles
    /\ dataset = <<>>
    /\ op = Idle
    /\ ret = None
    /\ calls = <<>>
    /\ raised = "none"

ValidateAnswer(answer, passages) ==
    /\ op = Idle
    /\ op' = [name |-> "validate_answer", answer |-> answer, passages |-> passages]
    /\ calls' = <<>>
    /\ raised' = "none"
    /\ ret' = ValidateAnswerValue(answer, passages)
    /\ UNCHANGED <<docs, index, tieAsc, files, dataset>>

ExtractiveAnswer(query, passages) ==
    /\ op = Idle
    /\ op' = [name |-> "extractive_answer", query |-> query, passages |-> passages]
    /\ calls' = <<>>
    /\ raised' = "none"
    /\ ret' = [kind |-> "str", text |-> ExtractiveAnswerValue(query, passages)]
    /\ UNCHANGED <<docs, index, tieAsc, files, dataset>>

GenerateAnswer(query, passages, model_type, outcome) ==
    /\ op = Idle
    /\ op' = [name |-> "generate_answer", query |-> query, passages |-> passages,
              model_type |-> model_type, outcome |-> outcome]
    /\ calls' = GenerateCalls(passages, model_type)
    /\ raised' = GenerateRaised(passages, model_type, outcome)
    /\ ret' = IF GenerateRaised(passages, model_type, outcome) = "none"
              THEN [kind |-> "str",
                    text |-> GenerateAnswerValue(query, passages, model_type, outcome)]
              ELSE None
    /\ UNCHANGED <<docs, index, tieAsc, files, dataset>>

NextAnswer ==
    \/ \E answer \in AnswerInputs,
          passages \in SeqsUpTo(PassageInputs, MaxCitedPassages) :
           ValidateAnswer(answer, passages)
    \/ \E query \in AnswerQueries, passages \in SeqsUpTo(PassageInputs, MaxPassages) :
           ExtractiveAnswer(query, passages)
    \/ \E query \in AnswerQueries,
          passages \in SeqsUpTo(PassageInputs, MaxCitedPassages),
          model_type \in ModelTypes :
           \E outcome \in OutcomesFor(model_type) :
               GenerateAnswer(query, passages, model_type, outcome)
    \/ Return

SpecAnswer == InitAnswer /\ [][NextAnswer]_vars

---------------------------------------------------------------------------
(* Properties of the answer assembly, checked under SpecAnswer *)

StartsWith(s, prefix) ==
    Len(s) >= Len(prefix) /\ SubSeq(s, 1, Len(prefix)) = prefix
EndsWith(s, suffix) ==
    Len(s) >= Len(suffix) /\ SubSeq(s, Len(s) - Len(suffix) + 1, Len(s)) = suffix

(* The [c.v]-shaped citations occurring in a text: its substrings of the exact
   form bracket, digits, period, digits, bracket *)
Occurring(text) ==
    UNION { {SubSeq(text, i, j) :
                j \in {e \in (i + 1)..Len(text) :
                          text[e] = "]" /\ WellFormed(SubSeq(text, i, e))}} :
            i \in {s \in 1..Len(text) : text[s] = "["} }

BuiltFromSome(citation, passages) ==
    \E i \in 1..Len(passages) :
        citation = build_citation(passages[i].chapter, passages[i].verse)

(* C11: validate_answer reports valid = True exactly when every [c.v]-shaped
   citation occurring in the answer is the citation built from one of the
   passages, and invalid_citations is exactly the set of the answer's
   citations that no passage yields. *)
C11_ValidIffAllCited ==
    op.name = "validate_answer" =>
        /\ ret.valid <=>
               \A c \in Occurring(op.answer) : BuiltFromSome(c, op.passages)
        /\ ret.invalid_citations =
               {c \in Occurring(op.answer) : ~BuiltFromSome(c, op.passages)}

(* An answer citing [3.1] and then [2.47] against passages covering only [3.1] *)
C11_Witness ==
    /\ op.name = "validate_answer"
    /\ Len(op.passages) = 1
    /\ op.passages[1].chapter = 3 /\ op.passages[1].verse = 1
    /\ op.answer = <<"[", "3", ".", "1", "]", "[", "2", ".", "4", "7", "]">>
    /\ ret.valid = FALSE
    /\ ret.invalid_citations = { <<"[", "2", ".", "4", "7", "]">> }

(* C12: for every query and every non-empty passage list, whatever the passage
   texts contain, validate_answer applied to the extractive answer and the same
   passages reports valid = True: every [c.v]-shaped citation of the composed
   answer is the citation of one of the passages. *)
C12_ExtractiveNeverFabricates ==
    (op.name = "extractive_answer" /\ op.passages # <<>>) =>
        /\ ValidateAnswerValue(ret.text, op.passages).valid
        /\ \A c \in Occurring(ret.text) : BuiltFromSome(c, op.passages)

(* The best passage's text names a verse that is not among the passages, and
   the sentence chosen is the one cut out of that reference *)
C12_Witness ==
    /\ op.name = "extractive_answer"
    /\ op.passages # <<>>
    /\ \E c \in Occurring(op.passages[1].text) : ~BuiltFromSome(c, op.passages)
    /\ StartsWith(ret.text, TeachesPrefix \o <<"9", "]", " ", "f", "o", "r",
        " ", "t", "h", "e", " ", "d", "u", "t", "y">>)
    /\ Occurring(ret.text) # {}

(* The backend outcomes that are a failure of the backend: it is unavailable,
   misconfigured, raises an error or times out *)
BackendFailures == {"no_credentials"} \cup BackendErrors

(* C13: for every query, every non-empty passage list and each of the modes
   gemini, openai and ollama, when the backend is unavailable, misconfigured,
   raises or times out, generate_answer raises nothing and returns exactly
   the string the extractive mode returns on the same input. *)
C13_FailureFallsBack ==
    (/\ op.name = "generate_answer"
     /\ op.passages # <<>>
     /\ op.model_type \in {"gemini", "openai", "ollama"}
     /\ op.outcome \in BackendFailures) =>
        /\ raised = "none"
        /\ ret.kind = "str"
        /\ ret.text = GenerateAnswerValue(op.query, op.passages, "extractive",
            "unused")
        /\ ret.text = ExtractiveAnswerValue(op.query, op.passages)

C13_Witness ==
    /\ op.name = "generate_answer"
    /\ op.model_type = "ollama"
    /\ op.outcome = "timeout"
    /\ Len(op.passages) = 2
    /\ raised = "none"
    /\ StartsWith(ret.text, TeachesPrefix)

(* C14: with zero passages, generate_answer in every mode and extractive_answer
   return the fixed couldn't-find-relevant-verses message and raise nothing,
   and generate_answer calls no generation backend. *)
C14_NoPassagesFixedMessage ==
    (op.name \in {"generate_answer",
        "extractive_answer"} /\ op.passages = <<>>) =>
        /\ raised = "none"
        /\ ret.kind = "str"
        /\ ret.text = NotFoundMessage
        /\ calls = <<>>

(* A backend that would have answered is not asked *)
C14_Witness ==
    /\ op.name = "generate_answer"
    /\ op.passages = <<>>
    /\ op.model_type = "gemini"
    /\ op.outcome = "text"
    /\ ret.text = NotFoundMessage

(* The text before the first line break, the whole text if it has none *)
FirstLine(text) ==
    LET breaks == {i \in 1..Len(text) : text[i] = "\n"}
    IN  IF breaks = {} THEN text
        ELSE SubSeq(text, 1, (CHOOSE i \in breaks : \A j \in breaks : i <= j) - 1)

Cite(passages, i) == build_citation(passages[i].chapter, passages[i].verse)

(* C15 as stated: the first line of the extractive answer is
   "The Bhagavad Gita teaches: {sentence} {citation of passage 1}"; with one
   passage the answer ends with that citation; with two or more a
   "Related guidance: ..." block follows, listing exactly the citations of
   passages 2 and 3 in order. *)
C15_FirstLineTeaches ==
    (op.name = "extractive_answer" /\ op.passages # <<>>) =>
        /\ StartsWith(FirstLine(ret.text), TeachesPrefix)
        /\ EndsWith(FirstLine(ret.text), <<" ">> \o Cite(op.passages, 1))
        /\ Len(op.passages) = 1 => EndsWith(ret.text, Cite(op.passages, 1))
        /\ Len(op.passages) = 2 =>
               EndsWith(ret.text, RelatedPrefix \o Cite(op.passages, 2))
        /\ Len(op.passages) >= 3 =>
               EndsWith(ret.text, RelatedPrefix \o Cite(op.passages, 2)
                                  \o <<",", " ">> \o Cite(op.passages, 3))

(* C15: the extractive answer begins with the block
   "The Bhagavad Gita teaches: {sentence} {citation of passage 1}", where the
   sentence keeps the line breaks of the verse text and the block may
   therefore span several lines; with one passage the answer is that block;
   with two or more it is that block, a blank line and "Related guidance: "
   with the citations of passages 2 and 3 (only 2 when there are two), in
   order, separated by ", ", and nothing else. *)
C15_TeachesBlockThenRelated ==
    (op.name = "extractive_answer" /\ op.passages # <<>>) =>
        LET block == TeachesPrefix
                     \o SelectedSentence(op.query, op.passages[1].text)
                     \o <<" ">> \o Cite(op.passages, 1)
        IN  /\ Len(op.passages) = 1 => ret.text = block
            /\ Len(op.passages) = 2 =>
                   ret.text = block \o RelatedPrefix \o Cite(op.passages, 2)
            /\ Len(op.passages) >= 3 =>
                   ret.text = block \o RelatedPrefix \o Cite(op.passages, 2)
                              \o <<",", " ">> \o Cite(op.passages, 3)

(* Four passages, and a chosen sentence that carries the verse header's line
   breaks into the first block *)
C15_Witness ==
    /\ op.name = "extractive_answer"
    /\ Len(op.passages) = 4
    /\ op.passages[4] # op.passages[2] /\ op.passages[4] # op.passages[3]
    /\ ~EndsWith(FirstLine(ret.text), <<" ">> \o Cite(op.passages, 1))
    /\ EndsWith(ret.text, Cite(op.passages, 3))

---------------------------------------------------------------------------
(* safety_check *)

medical_keywords ==
    << <<"m", "e", "d", "i", "c", "a", "l">>,
       <<"m", "e", "d", "i", "c", "i", "n", "e">>,
       <<"d", "o", "c", "t", "o", "r">>,
       <<"t", "r", "e", "a", "t", "m", "e", "n", "t">>,
       <<"d", "i", "a", "g", "n", "o", "s", "i", "s">>,
       <<"s", "y", "m", "p", "t", "o", "m", "s">>,
       <<"p", "r", "e", "s", "c", "r", "i", "p", "t", "i", "o", "n">>,
       <<"d", "r", "u", "g">>,
       <<"t", "h", "e", "r", "a", "p", "y">>,
       <<"c", "u", "r", "e">>,
       <<"i", "l", "l", "n", "e", "s", "s">>,
       <<"d", "i", "s", "e", "a", "s", "e">> >>

legal_keywords ==
    << <<"l", "e", "g", "a", "l">>,
       <<"l", "a", "w", "y", "e", "r">>,
       <<"c", "o", "u", "r", "t">>,
       <<"l", "a", "w", "s", "u", "i", "t">>,
       <<"l", "e", "g", "a", "l", " ", "a", "d", "v", "i", "c", "e">>,
       <<"a", "t", "t", "o", "r", "n", "e", "y">>,
       <<"l", "i", "t", "i", "g", "a", "t", "i", "o", "n">>,
       <<"c", "o", "n", "t", "r", "a", "c", "t">>,
       <<"l", "e", "g", "a", "l", " ", "o", "p", "i", "n", "i", "o", "n">>,
       <<"j", "u", "r", "i", "s", "d", "i", "c", "t", "i", "o", "n">> >>

(* sub in s, for a non-empty sub *)
Contains(s, sub) ==
    \E i \in 1..(Len(s) - Len(sub) + 1) : SubSeq(s, i, i + Len(sub) - 1) = sub

QueryAsGiven(query) == query
(* query_lower = query.lower() *)
LowerQuery(query) == Lower(query)

safety_check(query) ==
    ~\E i \in 1..Len(medical_keywords \o legal_keywords) :
        Contains(LowerQuery(query), (medical_keywords \o legal_keywords)[i])

---------------------------------------------------------------------------
(* The request handlers: POST /chat and GET /search of src/api.py and
   process_query of the chat front end *)

DeflectionMessage ==
    <<"I", " ", "c", "a", "n", " ", "h", "e", "l", "p", " ", "y", "o", "u",
        " ", "w", "i", "t", "h", " ", "q", "u", "e", "s", "t", "i", "o", "n",
        "s", " ", "a", "b", "o", "u", "t", " ", "l", "i", "f", "e", ",", " ",
        "s", "p", "i", "r", "i", "t", "u", "a", "l", "i", "t", "y", ",", " ",
        "a", "n", "d", " ", "p", "e", "r", "s", "o", "n", "a", "l", " ", "g",
        "r", "o", "w", "t", "h", " ", "b", "a", "s", "e", "d", " ", "o", "n",
        " ", "t", "h", "e", " ", "B", "h", "a", "g", "a", "v", "a", "d", " ",
        "G", "i", "t", "a", ".">>

NoMatchMessage ==
    <<"I", " ", "c", "o", "u", "l", "d", "n", "'", "t", " ", "f", "i", "n",
        "d", " ", "r", "e", "l", "e", "v", "a", "n", "t", " ", "v", "e", "r",
        "s", "e", "s", " ", "i", "n", " ", "t", "h", "e", " ", "B", "h", "a",
        "g", "a", "v", "a", "d", " ", "G", "i", "t", "a", " ", "t", "o", " ",
        "a", "n", "s", "w", "e", "r", " ", "y", "o", "u", "r", " ", "q", "u",
        "e", "s", "t", "i", "o", "n", ".", " ", "P", "l", "e", "a", "s", "e",
        " ", "t", "r", "y", " ", "r", "e", "p", "h", "r", "a", "s", "i", "n",
        "g", " ", "y", "o", "u", "r", " ", "q", "u", "e", "s", "t", "i", "o",
        "n", " ", "o", "r", " ", "a", "s", "k", "i", "n", "g", " ", "a", "b",
        "o", "u", "t", " ", "t", "o", "p", "i", "c", "s", " ", "l", "i", "k",
        "e", " ", "d", "u", "t", "y", ",", " ", "f", "o", "c", "u", "s", ",",
        " ", "r", "e", "l", "a", "t", "i", "o", "n", "s", "h", "i", "p", "s",
        ",", " ", "o", "r", " ", "p", "e", "r", "s", "o", "n", "a", "l", " ",
        "g", "r", "o", "w", "t", "h", ".">>

(* all_passages = [best_verse] + context_verses *)
AllPassages(search_result) ==
    <<search_result.best_verse>> \o search_result.context_verses

(* all_passages[:k] if k else all_passages *)
Sources(all_passages, k) ==
    IF k # 0 THEN PySliceTo(all_passages, k) ELSE all_passages

(* The steps a chat request takes, in order: the safety check, then the
   retriever, then the answerer with the best verse alone *)
ChatCalls(query, model_type) ==
    <<"safety_check">>
    \o (IF ~safety_check(query) THEN <<>>
        ELSE <<"retriever.search_best_answer">> \o SearchCalls(query)
             \o (IF SearchRaised(query) # "none" \/ BestAnswerValue(query) = None
                 THEN <<>>
                 ELSE <<"answerer.generate_answer">>
                      \o GenerateCalls(<<BestAnswerValue(query).best_verse>>,
                                       model_type)))

ChatRaised(query, model_type, outcome) ==
    IF ~safety_check(query) THEN "none"
    ELSE IF SearchRaised(query) # "none" THEN SearchRaised(query)
    ELSE IF BestAnswerValue(query) = None THEN "none"
    ELSE GenerateRaised(<<BestAnswerValue(query).best_verse>>, model_type, outcome)

(* model_used = request.model_type, in a response with an answer *)
ModelUsedRequested(query, model_type, outcome) == model_type

(* The ChatResponse, when the handler returns one *)
ChatValue(query, model_type, k, outcome) ==
    IF ~safety_check(query)
    THEN [kind |-> "chat", answer |-> DeflectionMessage, sources |-> <<>>,
          model_used |-> "safety_filter"]
    ELSE IF BestAnswerValue(query) = None
    THEN [kind |-> "chat", answer |-> NoMatchMessage, sources |-> <<>>,
          model_used |-> model_type]
    ELSE [kind |-> "chat",
          answer |-> GenerateAnswerValue(query, <<BestAnswerValue(query).best_verse>>,
                                         model_type, outcome),
          sources |-> Sources(AllPassages(BestAnswerValue(query)), k),
          model_used |-> ModelUsedRequested(query, model_type, outcome)]

(* GET /search: a blank query is refused with status 400, any other query
   goes to retriever.search *)
SearchVersesCalls(query) ==
    IF IsBlank(query) THEN <<>> ELSE <<"retriever.search">> \o SearchCalls(query)

SearchVersesRaised(query) ==
    IF IsBlank(query) THEN "HTTPException 400" ELSE SearchRaised(query)

SearchVersesValue(query, k) ==
    [kind |-> "search", query |-> query, results |-> SearchValue(query, SomeK(k))]

---------------------------------------------------------------------------
(* Inputs and initial states of the request-handling specification *)

MaxChatDocs == 2

SafetyQueries ==
    { <<>>,
      <<"H", "o", "w", " ", "d", "o", " ", "I", " ", "f", "o", "c", "u", "s",
          " ", "o", "n", " ", "m", "y", " ", "d", "u", "t", "y", "?">>,
      <<"W", "h", "a", "t", " ", "m", "e", "d", "i", "c", "i", "n", "e", " ",
          "s", "h", "o", "u", "l", "d", " ", "I", " ", "t", "a", "k", "e",
          "?">>,
      <<"M", "y", " ", "S", "E", "C", "U", "R", "E", " ", "p", "a", "t",
          "h">>,
      <<"t", "h", "e", " ", "C", "O", "U", "R", "T">>,
      <<"a", " ", "c", "u", "r", " ", "e">>,
      <<"L", "e", "g", "a", "l", " ", "A", "d", "v", "i", "c", "e">> }

(* Requests: the probe query, a blank one, and two that safety_check rejects *)
ChatQueries ==
    { ProbeQuery,
      <<" ">>,
      <<"W", "h", "a", "t", " ", "M", "E", "D", "I", "C", "I", "N", "E",
          "?">>,
      <<"s", "e", "c", "u", "r", "e">> }

ChatKs == -1..MaxK

(* The state after a successful startup: the retriever holds the verse list
   and the index; index[i] is the score of verse i for the request's query.
   A startup that loaded both artifacts holds whatever pair was on disk: the
   last store is an index of a later build, one vector longer than the
   verse list it was loaded with *)
InitChat ==
    /\ \/ \E n \in 1..MaxChatDocs :
            /\ docs = Corpus(n)
            /\ index \in [1..n -> ScoreVals]
       \/ /\ docs = Corpus(1)
          /\ index \in [1..2 -> ScoreVals]
    /\ tieAsc = TRUE
    /\ files = NoFiles
    /\ dataset = <<>>
    /\ op = Idle
    /\ ret = None
    /\ calls = <<>>
    /\ raised = "none"

SafetyCheck(query) ==
    /\ op = Idle
    /\ op' = [name |-> "safety_check", query |-> query]
    /\ calls' = <<>>
    /\ raised' = "none"
    /\ ret' = [kind |-> "bool", value |-> safety_check(query)]
    /\ UNCHANGED <<docs, index, tieAsc, files, dataset>>

Chat(query, model_type, k, outcome) ==
    /\ op = Idle
    /\ op' = [name |-> "chat", query |-> query, model_type |-> model_type,
              k |-> k, outcome |-> outcome]
    /\ calls' = ChatCalls(query, model_type)
    /\ raised' = ChatRaised(query, model_type, outcome)
    /\ ret' = IF ChatRaised(query, model_type, outcome) = "none"
              THEN ChatValue(query, model_type, k, outcome)
              ELSE None
    /\ UNCHANGED <<docs, index, tieAsc, files, dataset>>

(* process_query returns the pair (answer, sources) of the chat response *)
ProcessQuery(query, model_type, k, outcome) ==
    /\ op = Idle
    /\ op' = [name |-> "process_query", query |-> query, model_type |-> model_type,
              k |-> k, outcome |-> outcome]
    /\ calls' = ChatCalls(query, model_type)
    /\ raised' = ChatRaised(query, model_type, outcome)
    /\ ret' = IF ChatRaised(query, model_type, outcome) = "none"
              THEN [kind |-> "pair",
                    answer |-> ChatValue(query, model_type, k, outcome).answer,
                    sources |-> ChatValue(query, model_type, k, outcome).sources]
              ELSE None
    /\ UNCHANGED <<docs, index, tieAsc, files, dataset>>

SearchVerses(query, k) ==
    /\ op = Idle
    /\ op' = [name |-> "search_verses", query |-> query, k |-> k]
    /\ calls' = SearchVersesCalls(query)
    /\ raised' = SearchVersesRaised(query)
    /\ ret' = IF SearchVersesRaised(query) = "none"
              THEN SearchVersesValue(query, k)
              ELSE None
    /\ UNCHANGED <<docs, index, tieAsc, files, dataset>>

NextChat ==
    \/ \E query \in SafetyQueries : SafetyCheck(query)
    \/ \E query \in ChatQueries, model_type \in ModelTypes, k \in ChatKs :
           \E outcome \in OutcomesFor(model_type) :
               Chat(query, model_type, k, outcome)
    \/ \E query \in ChatQueries, model_type \in ModelTypes, k \in ChatKs :
           \E outcome \in OutcomesFor(model_type) :
               ProcessQuery(query, model_type, k, outcome)
    \/ \E query \in ChatQueries, k \in ChatKs : SearchVerses(query, k)
    \/ Return

SpecChat == InitChat /\ [][NextChat]_vars

---------------------------------------------------------------------------
(* Properties of safety_check and the request handlers, checked under SpecChat *)

Keywords ==
    {medical_keywords[i] : i \in 1..Len(medical_keywords)}
    \cup {legal_keywords[i] : i \in 1..Len(legal_keywords)}

HasKeyword(text) ==
    \E keyword \in Keywords :
        \E i \in 1..Len(text) :
            /\ i + Len(keyword) - 1 <= Len(text)
            /\ \A j \in 1..Len(keyword) : text[i + j - 1] = keyword[j]

(* C17: safety_check returns False exactly when the lower-cased query contains
   a keyword of the medical or legal list as a substring, at any position and
   also inside a longer word, and True otherwise; the letter case of the
   query does not matter (the lower-cased query gets the same answer). *)
C17_FalseIffKeywordSubstring ==
    op.name = "safety_check" =>
        /\ ret.value = FALSE <=> HasKeyword(Lower(op.query))
        /\ ret.value = TRUE <=> ~HasKeyword(Lower(op.query))
        /\ ret.value = safety_check(Lower(op.query))

(* An upper-case keyword inside a longer word *)
C17_Witness ==
    /\ op.name = "safety_check"
    /\ op.query = <<"M", "y", " ", "S", "E", "C", "U", "R", "E", " ", "p", "a",
        "t", "h">>
    /\ ret.value = FALSE

RetrieverEvents == {"retriever.search", "retriever.search_best_answer",
                    "model.encode", "index.search"}
GenerationEvents == {"answerer.generate_answer"} \cup Backends

Handled == op.name \in {"chat", "process_query", "search_verses"}

(* C16: in every request path that hands a query to the retriever (POST /chat,
   GET /search, process_query), the retriever is invoked only after
   safety_check(query) has returned True, and for a query safety_check
   rejects the caller returns the deflection message with zero sources and
   performs no retrieval and no answer generation. *)
C16_RetrieverOnlyAfterSafetyCheck ==
    Handled =>
        /\ \A i \in 1..Len(calls) :
               calls[i] \in RetrieverEvents =>
                   /\ \E j \in 1..(i - 1) : calls[j] = "safety_check"
                   /\ ~HasKeyword(Lower(op.query))
        /\ HasKeyword(Lower(op.query)) =>
               /\ raised = "none"
               /\ ret.kind \in {"chat", "pair"}
               /\ ret.answer = DeflectionMessage
               /\ ret.sources = <<>>
               /\ \A i \in 1..Len(calls) :
                      calls[i] \notin RetrieverEvents \cup GenerationEvents

(* C18: the model_used of a chat response that carries a generated answer is
   the mode that produced the answer: the requested backend when it answered,
   "extractive" when the answer came from the extractive path. *)
C18_ModelUsedIsModeUsed ==
    (/\ op.name = "chat"
     /\ raised = "none"
     /\ ret.answer # DeflectionMessage
     /\ ret.answer # NoMatchMessage) =>
        /\ op.model_type \in Backends /\ op.outcome \in BackendFailures =>
               ret.model_used = "extractive"
        /\ op.model_type \in Backends /\ op.outcome = "text" =>
               ret.model_used = op.model_type
        /\ op.model_type = "extractive" => ret.model_used = "extractive"

---------------------------------------------------------------------------
(* normalize_schema and GitaIndexer.load_dataset.  A raw row is a function
   from its column names to values; a value is None, an integer or a string *)

IntValue(n) == [kind |-> "int", value |-> n]
StrValue(s) == [kind |-> "str", value |-> s]

field_mappings ==
    [chapter |-> <<"chapter", "Chapter", "ch">>,
     verse |-> <<"verse", "Verse", "v">>,
     sanskrit |-> <<"sanskrit", "Sanskrit", "sa">>,
     hindi |-> <<"hindi", "Hindi", "hi">>,
     english |-> <<"english", "English", "en", "translation">>]

(* standard_field in normalized: one of its possible names is a column *)
HasField(row, field) ==
    \E i \in 1..Len(field_mappings[field]) : field_mappings[field][i] \in DOMAIN row

(* normalized.get(field): the value of the first possible name present *)
Field(row, field) ==
    IF HasField(row, field)
    THEN LET names == field_mappings[field]
             first == CHOOSE i \in 1..Len(names) :
                          /\ names[i] \in DOMAIN row
                          /\ \A j \in 1..(i - 1) : names[j] \notin DOMAIN row
         IN  row[names[first]]
    ELSE None

(* not x *)
Falsy(x) ==
    \/ x = None
    \/ x.kind = "int" /\ x.value = 0
    \/ x.kind = "str" /\ x.value = <<>>

(* int(x) for a truthy x: an integer as it is, a string through int() *)
IntOf(x) == IF x.kind = "int" THEN [ok |-> TRUE, value |-> x.value] ELSE PyInt(x.value)

(* The characters of a string field, empty for a falsy one *)
Chars(x) == IF Falsy(x) THEN <<>> ELSE x.value

(* normalized.get('english', normalized.get('hindi', '')) *)
RowText(row) ==
    IF HasField(row, "english") THEN Field(row, "english")
    ELSE IF HasField(row, "hindi") THEN Field(row, "hindi")
    ELSE StrValue(<<>>)

(* A row the loop skips before converting its numbers *)
SkippedEarly(row) ==
    \/ Falsy(Field(row, "chapter")) \/ Falsy(Field(row, "verse"))
    \/ Falsy(Field(row, "english")) /\ Falsy(Field(row, "hindi"))

(* int() raises ValueError on the chapter or the verse of a row *)
RowRaises(row) ==
    ~SkippedEarly(row)
    /\ (~IntOf(Field(row, "chapter")).ok \/ ~IntOf(Field(row, "verse")).ok)

(* if not text: continue, after clean_text *)
SkippedLate(row) == clean_text(Chars(RowText(row))) = <<>>

RowVerse(row) ==
    VerseData(IntOf(Field(row, "chapter")).value,
              IntOf(Field(row, "verse")).value,
              Chars(Field(row, "sanskrit")),
              clean_text(Chars(RowText(row))))

(* The loop over the rows from position i; an exception ends it (ok = FALSE) *)
RECURSIVE LoadRows(_, _, _)
LoadRows(rows, i, verses) ==
    IF i > Len(rows) THEN [ok |-> TRUE, verses |-> verses]
    ELSE IF SkippedEarly(rows[i]) THEN LoadRows(rows, i + 1, verses)
    ELSE IF RowRaises(rows[i]) THEN [ok |-> FALSE, verses |-> <<>>]
    ELSE IF SkippedLate(rows[i]) THEN LoadRows(rows, i + 1, verses)
    ELSE LoadRows(rows, i + 1, Append(verses, RowVerse(rows[i])))

(* load_dataset when the dataset hub is reachable or not *)
LoadDataset(rows, reachable) ==
    IF reachable THEN LoadRows(rows, 1, <<>>) ELSE [ok |-> FALSE, verses |-> <<>>]

---------------------------------------------------------------------------
(* GitaIndexer.load_index, build_index, save_index and initialize_indexer *)

Corrupt == [kind |-> "corrupt"]
IndexFile(vectors) == [kind |-> "index", vectors |-> vectors]
DocsFile(verses) == [kind |-> "docs", verses |-> verses]

(* model.encode is a function of the text; the vector of a text stands for
   its normalised embedding *)
Embedding(text) == <<"embedding", text>>

(* create_embeddings and build_faiss_index: vector i is that of verse i *)
BuildVectors(verses) == [i \in 1..Len(verses) |-> Embedding(verses[i].text)]

(* os.path.exists of both artifacts *)
BothExist(f) == f.index # Absent /\ f.docs # Absent

LoadRefused(f, env) == FALSE
(* load_index returns True: both files exist, both deserialize and the
   embedding model loads *)
LoadSucceeds(f, env) ==
    /\ BothExist(f)
    /\ f.index # Corrupt /\ f.docs # Corrupt
    /\ env.load_ok

NeverEmpty(verses) == FALSE
(* if not verses: return False *)
NoVerses(verses) == verses = <<>>

(* build_index gets as far as save_index *)
ReachesSave(rows, env) ==
    /\ LoadDataset(rows, env.dataset_ok).ok
    /\ ~NoVerses(LoadDataset(rows, env.dataset_ok).verses)
    /\ env.encode_ok

(* What a write leaves on disk: the new content, the old one when the file
   could not be opened, a broken file when the write stopped half-way *)
Written(old, new, outcome) ==
    IF outcome = "ok" THEN new
    ELSE IF outcome = "refused" THEN old
    ELSE Corrupt

(* save_index: the index file first, the verse list only if that succeeded *)
SaveIndex(f, vectors, verses, env) ==
    [index |-> Written(f.index, IndexFile(vectors), env.write_index),
     docs |-> IF env.write_index = "ok"
              THEN Written(f.docs, DocsFile(verses), env.write_docs)
              ELSE f.docs]

BuildSucceeds(rows, env) ==
    ReachesSave(rows, env) /\ env.write_index = "ok" /\ env.write_docs = "ok"

FilesAfter(f, rows, env) ==
    IF LoadSucceeds(f, env) \/ ~ReachesSave(rows, env) THEN f
    ELSE SaveIndex(f, BuildVectors(LoadDataset(rows, env.dataset_ok).verses),
                   LoadDataset(rows, env.dataset_ok).verses, env)

InitializeRaised(f, rows, env) ==
    IF LoadSucceeds(f, env) \/ BuildSucceeds(rows, env) THEN "none"
    ELSE "RuntimeError"

(* The indexer returned: its index and its verse list *)
InitializeValue(f, rows, env) ==
    IF LoadSucceeds(f, env)
    THEN [kind |-> "indexer", index |-> f.index.vectors, docs |-> f.docs.verses]
    ELSE [kind |-> "indexer",
          index |-> BuildVectors(LoadDataset(rows, env.dataset_ok).verses),
          docs |-> LoadDataset(rows, env.dataset_ok).verses]

InitializeCalls(f, rows, env) ==
    (IF BothExist(f) THEN <<"read_artifacts">> ELSE <<>>)
    \o (IF LoadSucceeds(f, env) THEN <<>>
        ELSE <<"load_dataset">>
             \o (IF LoadDataset(rows, env.dataset_ok).ok
                    /\ ~NoVerses(LoadDataset(rows, env.dataset_ok).verses)
                 THEN <<"model.encode">> ELSE <<>>)
             \o (IF ReachesSave(rows, env) THEN <<"write_index_file">> ELSE <<>>)
             \o (IF ReachesSave(rows, env) /\ env.write_index = "ok"
                 THEN <<"write_docs_file">> ELSE <<>>))

---------------------------------------------------------------------------
(* Inputs and initial states of the load-or-build specification *)

WriteOutcomes == {"ok", "refused", "partial"}

(* What the environment does during one run: whether the artifacts can be
   read and the model loaded, whether the dataset hub can be reached, whether
   the model can embed, and how each write ends *)
Environments ==
    [load_ok : BOOLEAN, dataset_ok : BOOLEAN, encode_ok : BOOLEAN,
     write_index : WriteOutcomes, write_docs : WriteOutcomes]

ValidRow ==
    [chapter |-> IntValue(2), verse |-> IntValue(47),
     sanskrit |-> StrValue(Sanskrit),
     english |-> StrValue(<<" ", "D", "o", " ", "y", "o", "u", "r", " ", " ",
         "d", "u", "t", "y", ".", " ">>)]
RenamedRow ==
    [Chapter |-> StrValue(<<"3">>), v |-> StrValue(<<" ", "1">>),
     translation |-> StrValue(<<"A", "c", "t", " ", "n", "o", "w">>)]
HindiRow ==
    [ch |-> IntValue(4), verse |-> IntValue(7), hi |-> StrValue(<<"k", "a",
        "r", "m", "a">>)]
NoChapterRow ==
    [chapter |-> None, verse |-> IntValue(1), english |-> StrValue(<<"A", "c",
        "t">>)]
NoTextRow ==
    [chapter |-> IntValue(1), verse |-> IntValue(1), sanskrit |-> StrValue(Sanskrit)]
BlankTextRow ==
    [chapter |-> IntValue(1), verse |-> IntValue(2), english |-> StrValue(<<" ",
        "\t">>)]
BadNumberRow ==
    [chapter |-> StrValue(<<"x">>), verse |-> IntValue(1), english |-> StrValue(<<"A",
        "c", "t">>)]

(* The chapter and verse of ValidRow once more, with another translation *)
RepeatedRow ==
    [chapter |-> IntValue(2), verse |-> IntValue(47), english |-> StrValue(<<"A",
        "c", "t">>)]
OutOfRangeRow ==
    [chapter |-> IntValue(19), verse |-> StrValue(<<"0">>), english |-> StrValue(<<"A",
        "c", "t">>)]
(* Every column present, as the rows of a tabular dataset are, the english
   one empty *)
EmptyEnglishRow ==
    [chapter |-> IntValue(5), verse |-> IntValue(1), sanskrit |-> None,
     english |-> StrValue(<<>>), hindi |-> StrValue(<<"k", "a", "r", "m",
         "a">>)]

DatasetInputs ==
    { <<>>,
      <<ValidRow>>,
      <<ValidRow, RenamedRow, HindiRow>>,
      <<NoChapterRow, ValidRow, BlankTextRow>>,
      <<NoChapterRow, NoTextRow, BlankTextRow>>,
      <<ValidRow, BadNumberRow>>,
      <<ValidRow, RepeatedRow>>,
      <<OutOfRangeRow, ValidRow>>,
      <<EmptyEnglishRow, ValidRow>> }

(* A first deployment: no artifact on disk yet, and a dataset that does not
   change afterwards *)
InitIndex ==
    /\ docs = <<>>
    /\ index = <<>>
    /\ tieAsc = TRUE
    /\ files = NoFiles
    /\ dataset \in DatasetInputs
    /\ op = Idle
    /\ ret = None
    /\ calls = <<>>
    /\ raised = "none"

(* One run of initialize_indexer; op.start keeps the artifacts it found *)
InitializeIndexer(env) ==
    /\ op = Idle
    /\ op' = [name |-> "initialize_indexer", env |-> env, start |-> files]
    /\ calls' = InitializeCalls(files, dataset, env)
    /\ raised' = InitializeRaised(files, dataset, env)
    /\ ret' = IF InitializeRaised(files, dataset, env) = "none"
              THEN InitializeValue(files, dataset, env)
              ELSE None
    /\ files' = FilesAfter(files, dataset, env)
    /\ UNCHANGED <<docs, index, tieAsc, dataset>>

NextIndex ==
    \/ \E env \in Environments : InitializeIndexer(env)
    \/ Return

SpecIndex == InitIndex /\ [][NextIndex]_vars

---------------------------------------------------------------------------
(* Properties of the load-or-build policy, checked under SpecIndex *)

Ran == op.name = "initialize_indexer"

Intact(f) ==
    /\ f.index.kind = "index"
    /\ f.docs.kind = "docs"

BuildEvents == {"load_dataset", "model.encode", "write_index_file",
    "write_docs_file"}

Built(events) == \E i \in 1..Len(events) : events[i] \in BuildEvents

(* The verse list and the index a build from the unchanged dataset yields *)
FirstBuildDocs == LoadDataset(dataset, TRUE).verses
FirstBuildIndex == [i \in 1..Len(FirstBuildDocs) |-> <<"embedding", FirstBuildDocs[i].text>>]

(* C19: a run that succeeds leaves both artifacts on disk, holding the one
   build of the unchanged dataset; a run that finds both artifacts and whose
   load does not fail takes the load path: it loads no dataset, embeds
   nothing, writes nothing, leaves both artifacts as they were and returns
   the index and verse list of the first build; a run builds only when an
   artifact is missing or the load fails. *)
C19_LoadOrBuildIdempotent ==
    /\ Intact(files) =>
           /\ files.docs.verses = FirstBuildDocs
           /\ files.index.vectors = FirstBuildIndex
    /\ Ran =>
        /\ raised = "none" => Intact(files)
        /\ (Intact(op.start) /\ op.env.load_ok) =>
               /\ raised = "none"
               /\ ~Built(calls)
               /\ files = op.start
               /\ ret.index = FirstBuildIndex
               /\ ret.docs = FirstBuildDocs
        /\ Built(calls) =>
               \/ op.start.index = Absent \/ op.start.docs = Absent
               \/ ~Intact(op.start) \/ ~op.env.load_ok

(* A later run on the load path: both artifacts were there, and the dataset
   hub, the embedding and the disk are all unavailable to it *)
C19_Witness ==
    /\ Ran
    /\ Intact(op.start)
    /\ op.env.load_ok
    /\ ~op.env.dataset_ok /\ ~op.env.encode_ok
    /\ op.env.write_index = "refused"
    /\ raised = "none"
    /\ Len(ret.docs) = 3
    /\ files = op.start

DatasetFails ==
    \/ ~op.env.dataset_ok
    \/ ~LoadDataset(dataset, TRUE).ok
    \/ LoadDataset(dataset, TRUE).verses = <<>>

(* C20 as stated: whenever the raw dataset cannot be loaded or yields zero
   valid verses, initialize_indexer fails with a hard error and neither
   artifact is created or modified by the run. *)
C20_DatasetFailureIsFatal ==
    (Ran /\ DatasetFails) =>
        /\ raised = "RuntimeError"
        /\ ret = None
        /\ files = op.start

Attempted == \E i \in 1..Len(calls) : calls[i] = "load_dataset"

(* C20: on the build path, that is when an artifact is missing or the load
   fails and the run therefore loads the dataset, a dataset that cannot be
   loaded or yields zero valid verses makes initialize_indexer raise
   RuntimeError, no indexer is returned, and neither artifact is created or
   modified by the run; a run that loads both artifacts does not consult the
   dataset and succeeds whatever its state. *)
C20_BuildWithoutDatasetIsFatal ==
    Ran =>
        /\ (Attempted /\ DatasetFails) =>
               /\ raised = "RuntimeError"
               /\ ret = None
               /\ files = op.start
        /\ (Intact(op.start) /\ op.env.load_ok) =>
               /\ ~Attempted
               /\ raised = "none"

(* A dataset whose rows are all skipped, on a first run with every other
   step of the environment working *)
C20_Witness ==
    /\ Ran
    /\ Attempted
    /\ Len(dataset) = 3
    /\ LoadDataset(dataset, TRUE).ok
    /\ LoadDataset(dataset, TRUE).verses = <<>>
    /\ op.env.dataset_ok /\ op.env.encode_ok
    /\ op.env.write_index = "ok" /\ op.env.write_docs = "ok"
    /\ raised = "RuntimeError"
    /\ files = NoFiles

---------------------------------------------------------------------------
(* clean_text on its own: the texts a dataset field can hold, over a letter,
   the two kinds of whitespace the pattern \s+ collapses, and a character
   outside printable ASCII *)

MaxTextLen == 4

(* One Devanagari letter, as the hindi and sanskrit fields hold them; it is
   one character of the text, outside \x20-\x7E and not whitespace *)
NonAscii == "U+0915"

TextChars == {"a", " ", "\t", NonAscii}

TextInputs == SeqsUpTo(TextChars, MaxTextLen)

InitText ==
    /\ docs = <<>>
    /\ index = <<>>
    /\ tieAsc = TRUE
    /\ files = NoFiles
    /\ dataset = <<>>
    /\ op = Idle
    /\ ret = None
    /\ calls = <<>>
    /\ raised = "none"

CleanText(text) ==
    /\ op = Idle
    /\ op' = [name |-> "clean_text", text |-> text]
    /\ ret' = clean_text(text)
    /\ calls' = <<>>
    /\ raised' = "none"
    /\ UNCHANGED <<docs, index, tieAsc, files, dataset>>

NextText ==
    \/ \E text \in TextInputs : CleanText(text)
    \/ Return

SpecText == InitText /\ [][NextText]_vars

Cleaned == op.name = "clean_text"

DoubleSpace(s) == \E i \in 1..(Len(s) - 1) : s[i] = " " /\ s[i + 1] = " "

Untrimmed(s) == s # <<>> /\ (s[1] \in Whitespace \/ s[Len(s)] \in Whitespace)

(* C21 as stated: clean_text is idempotent, for every string, including
   strings that mix spaces with non-printable or non-ASCII characters; its
   output has no leading or trailing whitespace and no two consecutive
   spaces. *)
C21_CleanTextIdempotent ==
    Cleaned =>
        /\ clean_text(ret) = ret
        /\ ~DoubleSpace(ret)
        /\ ~Untrimmed(ret)

---------------------------------------------------------------------------
(* Properties of the verse list a build stores, checked under SpecIndex *)

(* A run that built and handed back its verse list *)
BuiltStore == Ran /\ raised = "none" /\ Built(calls)

Stored(chapter, verse) ==
    \E i \in 1..Len(ret.docs) :
        ret.docs[i].chapter = chapter /\ ret.docs[i].verse = verse

(* C22 as stated: every verse record in the store the build path produces
   has 1 <= chapter <= 18, verse >= 1 and a non-empty text, for every raw
   dataset. *)
C22_StoredRecordsValid ==
    BuiltStore =>
        \A i \in 1..Len(ret.docs) :
            /\ ret.docs[i].chapter \in 1..18
            /\ ret.docs[i].verse >= 1
            /\ Strip(ret.docs[i].text) # <<>>

(* C23 as stated: in the store the build path produces, (chapter, verse)
   pairs are unique and so are verse ids, for every raw dataset, including
   one with two records of the same chapter and verse. *)
C23_StoredPairsUnique ==
    BuiltStore =>
        \A i, j \in 1..Len(ret.docs) :
            i # j =>
                /\ <<ret.docs[i].chapter, ret.docs[i].verse>>
                       # <<ret.docs[j].chapter, ret.docs[j].verse>>
                /\ ret.docs[i].id # ret.docs[j].id

(* A raw record with a chapter and a verse that are present, non-empty and
   parseable as integers *)
Numbered(row) ==
    /\ ~Falsy(Field(row, "chapter")) /\ ~Falsy(Field(row, "verse"))
    /\ IntOf(Field(row, "chapter")).ok /\ IntOf(Field(row, "verse")).ok

(* A raw record that passes the validation of the loop *)
ValidRecord(row) == Numbered(row) /\ clean_text(Chars(RowText(row))) # <<>>

(* A run on the build path with the hub, the embedding and the disk working *)
CleanBuild ==
    /\ Ran /\ Attempted
    /\ op.env.dataset_ok /\ op.env.encode_ok
    /\ op.env.write_index = "ok" /\ op.env.write_docs = "ok"

(* C24 as stated: a raw record that fails validation is skipped and never
   makes the build fail; every valid record of the same dataset is still
   stored, and the build fails only when no valid record remains. *)
C24_InvalidRecordsSkipped ==
    CleanBuild =>
        IF \E i \in 1..Len(dataset) : ValidRecord(dataset[i])
        THEN /\ raised = "none"
             /\ \A i \in 1..Len(dataset) :
                    ValidRecord(dataset[i]) =>
                        Stored(IntOf(Field(dataset[i], "chapter")).value,
                               IntOf(Field(dataset[i], "verse")).value)
        ELSE raised = "RuntimeError"

Usable(x) == clean_text(Chars(x)) # <<>>

(* C29 as stated: a raw record with valid chapter and verse and usable text
   in at least one language is stored, its text taken from the english field
   and, when that field is absent or empty, from the hindi field; a record
   is excluded only when neither field holds usable text. *)
C29_HindiWhenEnglishEmpty ==
    BuiltStore =>
        \A i \in 1..Len(dataset) :
            LET row == dataset[i]
                chapter == IntOf(Field(row, "chapter")).value
                verse == IntOf(Field(row, "verse")).value
                text == IF Usable(Field(row, "english"))
                        THEN clean_text(Chars(Field(row, "english")))
                        ELSE clean_text(Chars(Field(row, "hindi")))
            IN  Numbered(row) =>
                    IF Usable(Field(row, "english")) \/ Usable(Field(row, "hindi"))
                    THEN \E j \in 1..Len(ret.docs) :
                             /\ ret.docs[j].chapter = chapter
                             /\ ret.docs[j].verse = verse
                             /\ ret.docs[j].text =
                                    CanonicalText(chapter, verse,
                                        Chars(Field(row, "sanskrit")), text)
                    ELSE ~Stored(chapter, verse)

---------------------------------------------------------------------------
(* The sentence extractive_answer selects, checked under SpecAnswer *)

(* The pieces of a text between its runs of '.', '!' and '?', trimmed *)
Pieces(text) == [i \in 1..Len(Sentences(text)) |-> Strip(Sentences(text)[i])]

Eligible(text) == {i \in 1..Len(Pieces(text)) : Len(Pieces(text)[i]) >= 20}

(* The distinct lower-cased words a piece shares with the query *)
Shared(piece, query) == WordSet(piece) \cap WordSet(query)

(* The text before the first period of a text, all of it when it has none *)
UpToFirstPeriod(text) ==
    LET periods == {i \in 1..Len(text) : text[i] = "."}
        end == IF periods = {} THEN Len(text)
               ELSE (CHOOSE i \in periods : \A j \in periods : i <= j) - 1
    IN  SubSeq(text, 1, end)

(* The sentence of an extractive answer: what stands between the opening
   words and the citation of the first passage *)
AnswerSentence ==
    LET head == Len(TeachesPrefix)
        tail == Len(<<" ">> \o Cite(op.passages, 1))
        block == IF Len(op.passages) = 1 THEN ret.text
                 ELSE SubSeq(ret.text, 1,
                          Len(ret.text) - Len(RelatedBlock(op.passages)))
    IN  SubSeq(block, head + 1, Len(block) - tail)

(* C27: extractive_answer selects its sentence from the first passage only:
   among the pieces of its text split on runs of '.', '!' and '?', trimmed,
   with length >= 20, it picks the one sharing the largest number of
   distinct lower-cased whitespace-separated words with the query, the
   earliest such piece winning ties; when no eligible piece shares a word
   with the query the sentence is the text up to its first period followed
   by a period. *)
C27_BestSentenceOfFirstPassage ==
    (op.name = "extractive_answer" /\ op.passages # <<>>) =>
        LET text == op.passages[1].text
            pieces == Pieces(text)
            score(i) == Cardinality(Shared(pieces[i], op.query))
            matching == {i \in Eligible(text) : score(i) > 0}
        IN  IF matching = {}
            THEN AnswerSentence = UpToFirstPeriod(text) \o <<".">>
            ELSE \E i \in matching :
                    /\ \A j \in matching : score(j) <= score(i)
                    /\ \A j \in matching : j < i => score(j) < score(i)
                    /\ AnswerSentence = pieces[i]

(* Two eligible pieces of the first passage tie on the one word of the
   query, and the answer carries the earlier one *)
C27_Witness ==
    /\ op.name = "extractive_answer"
    /\ Len(op.passages) >= 2
    /\ LET text == op.passages[1].text
           pieces == Pieces(text)
       IN  \E i, j \in Eligible(text) :
               /\ i < j
               /\ Cardinality(Shared(pieces[i], op.query)) = 1
               /\ Cardinality(Shared(pieces[j], op.query)) = 1
               /\ pieces[i] # pieces[j]
               /\ AnswerSentence = pieces[i]

---------------------------------------------------------------------------
(* Properties of the chat response, checked under SpecChat *)

Chatted == op.name \in {"chat", "process_query"}

(* A response that carries an answer, neither deflection nor no-match *)
Answered ==
    /\ Chatted
    /\ raised = "none"
    /\ ret.answer # DeflectionMessage
    /\ ret.answer # NoMatchMessage

(* C25 as stated: once startup has succeeded, the chat handler returns a well-defined
   response for every query string, every requested mode and every outcome
   of the generation backend (text, empty text, unavailable, error, timeout):
   the deflection message, the no-match message, or an answer; nothing
   about the query produces an exception or an error code. *)
C25_ChatAlwaysResponds ==
    Chatted =>
        /\ raised = "none"
        /\ ret # None
        /\ IF HasKeyword(Lower(op.query))
           THEN ret.answer = DeflectionMessage /\ ret.sources = <<>>
           ELSE IF Strip(op.query) = <<>> \/ Passing = {}
           THEN ret.answer = NoMatchMessage /\ ret.sources = <<>>
           ELSE /\ ret.answer # <<>>
                /\ \/ StartsWith(ret.answer, TeachesPrefix)
                   \/ /\ op.model_type \in Backends
                      /\ op.outcome = "text"
                      /\ ret.answer = Strip(GeneratedText)

(* The verses an answer cites, as (chapter, verse) pairs of digit strings *)
CitedPairs(answer) == Range(extract_citations_from_text(answer))

(* C28 as stated: for every chat request that yields an answer the source
   list is limited to the requested size k: it holds at most k entries, it
   is a prefix of [best_verse] followed by context_verses in rank order, and
   every verse cited in the extractive answer appears in it; for every
   integer k, including 0 and negative values. *)
C28_SourcesLimitedToK ==
    Answered =>
        LET all_passages == AllPassages(BestAnswerValue(op.query))
        IN  /\ Len(ret.sources) <= Max(op.k, 0)
            /\ Len(ret.sources) <= Len(all_passages)
            /\ ret.sources = SubSeq(all_passages, 1, Len(ret.sources))
            /\ op.model_type = "extractive" =>
                   \A citation \in CitedPairs(ret.answer) :
                       \E i \in 1..Len(ret.sources) :
                           build_citation(ret.sources[i].chapter,
                                          ret.sources[i].verse) = citation

---------------------------------------------------------------------------
(* Concurrent readers: several handlers of one process hold the same
   retriever and answerer and run their queries at the same time.  In this
   specification op and ret are functions from clients to what op and ret
   are for one caller. *)

MaxClients == 2

Clients == 1..MaxClients

(* The stores of the started process: verse list and scores of the query *)
SharedStores ==
    { [docs |-> Corpus(1), index |-> <<10>>],
      [docs |-> Corpus(2), index |-> <<40, 10>>],
      [docs |-> Corpus(2), index |-> <<5, 40>>] }

SharedPassages ==
    <<Passage(1, 1, CorpusVerse(1).text), Passage(1, 2, CorpusVerse(2).text)>>

SharedRequests ==
    { [name |-> "search", query |-> ProbeQuery, k |-> NoK],
      [name |-> "search", query |-> ProbeQuery, k |-> SomeK(1)],
      [name |-> "search_best_answer", query |-> ProbeQuery],
      [name |-> "get_verse_by_citation", chapter |-> 1, verse |-> 2],
      [name |-> "validate_citations", citations |-> <<<<"1", ".", "1">>, <<"9",
          ".", "9">>>>],
      [name |-> "generate_answer", query |-> ProbeQuery,
       passages |-> SharedPassages, model_type |-> "extractive",
       outcome |-> "unused"],
      [name |-> "validate_answer", answer |-> <<"S", "e", "e", " ", "[", "1",
          ".", "2", "]", " ", "a", "n", "d", " ", "[", "9", ".", "9", "]">>,
       passages |-> SharedPassages] }

(* What the operation returns from the store as it is when it reads it *)
QueryValue(request) ==
    CASE request.name = "search" ->
             [kind |-> "list", items |-> SearchValue(request.query, request.k)]
      [] request.name = "search_best_answer" -> BestAnswerValue(request.query)
      [] request.name = "get_verse_by_citation" ->
             GetVerseValue(request.chapter, request.verse)
      [] request.name = "validate_citations" ->
             [kind |-> "reports", items |-> ValidateValue(request.citations)]
      [] request.name = "generate_answer" ->
             [kind |-> "str",
              text |-> GenerateAnswerValue(request.query, request.passages,
                           request.model_type, request.outcome)]
      [] request.name = "validate_answer" ->
             ValidateAnswerValue(request.answer, request.passages)

(* The results that hold verse dicts the caller can write to *)
HoldsVerse(value) ==
    \/ value.kind = "list" /\ value.items # <<>>
    \/ value.kind = "bundle"
    \/ value.kind = "verse"

FirstVerse(value) ==
    IF value.kind = "list" THEN value.items[1]
    ELSE IF value.kind = "bundle" THEN value.best_verse
    ELSE value.value

EditedText == <<"e", "d", "i", "t", "e", "d">>

(* result['text'] = ... by the caller, on the first verse of its result *)
Edited(value) ==
    IF value.kind = "list"
    THEN [value EXCEPT !.items[1].text = EditedText]
    ELSE IF value.kind = "bundle"
    THEN [value EXCEPT !.best_verse.text = EditedText]
    ELSE [value EXCEPT !.value.text = EditedText]

StoredPosition(result) == CHOOSE i \in 1..Len(docs) : docs[i].id = result.id

SameDict(position) == position
(* result = {'id': doc['id'], ...}: search and get_verse_by_citation build a
   new dict of immutable values for every verse they return; the stored
   dict it is the same object as is none (0) *)
NewDict(position) == 0

InitShared ==
    /\ \E store \in SharedStores :
        /\ docs = store.docs
        /\ index = store.index
    /\ tieAsc = TRUE
    /\ files = NoFiles
    /\ dataset = <<>>
    /\ op = [p \in Clients |-> Idle]
    /\ ret = [p \in Clients |-> None]
    /\ calls = <<>>
    /\ raised = "none"

(* A handler receives a request while others may be running *)
Call(p, request) ==
    /\ op[p] = Idle
    /\ op' = [op EXCEPT ![p] = [name |-> request.name, request |-> request,
                                pc |-> "called", edited |-> FALSE]]
    /\ UNCHANGED <<ret, docs, index, tieAsc, files, dataset, calls, raised>>

(* The operation of the request runs and hands its result to its caller *)
Complete(p) ==
    /\ op[p] # Idle
    /\ op[p].pc = "called"
    /\ op' = [op EXCEPT ![p].pc = "done"]
    /\ ret' = [ret EXCEPT ![p] = QueryValue(op[p].request)]
    /\ UNCHANGED <<docs, index, tieAsc, files, dataset, calls, raised>>

(* The caller writes to the first verse of the result it was handed *)
EditResult(p) ==
    /\ op[p] # Idle
    /\ op[p].pc = "done"
    /\ ~op[p].edited
    /\ HoldsVerse(ret[p])
    /\ op' = [op EXCEPT ![p].edited = TRUE]
    /\ ret' = [ret EXCEPT ![p] = Edited(ret[p])]
    /\ LET position == NewDict(StoredPosition(FirstVerse(ret[p])))
       IN  docs' = IF position = 0 THEN docs
                   ELSE [docs EXCEPT ![position].text = EditedText]
    /\ UNCHANGED <<index, tieAsc, files, dataset, calls, raised>>

(* The caller drops its result *)
Drop(p) ==
    /\ op[p] # Idle
    /\ op[p].pc = "done"
    /\ op' = [op EXCEPT ![p] = Idle]
    /\ ret' = [ret EXCEPT ![p] = None]
    /\ UNCHANGED <<docs, index, tieAsc, files, dataset, calls, raised>>

NextShared ==
    \/ \E p \in Clients, request \in SharedRequests : Call(p, request)
    \/ \E p \in Clients : Complete(p)
    \/ \E p \in Clients : EditResult(p)
    \/ \E p \in Clients : Drop(p)

SpecShared == InitShared /\ [][NextShared]_vars

(* Every result a caller holds and has not written to is the result its
   query produces when run alone on the store *)
ResultsAsAlone ==
    \A p \in Clients :
        (op[p] # Idle /\ op[p].pc = "done" /\ ~op[p].edited) =>
            ret[p] = QueryValue(op[p].request)

(* C26: after startup the verse list and the index are read-only: no
   sequence or interleaving of concurrent query operations (search,
   search_best_answer, get_verse_by_citation, validate_citations,
   generate_answer, validate_answer) changes them, writing to a returned
   SearchResult does not change the stored verse, and each query's result
   equals the result the same query produces when run alone. *)
C26_StoreReadOnly ==
    /\ []ResultsAsAlone
    /\ [][docs' = docs /\ index' = index]_vars

(* Two clients ran the same search at the same time; one wrote to its first
   result, the other still holds the stored text *)
C26_Witness ==
    \E p, q \in Clients :
        /\ p # q
        /\ op[p] # Idle /\ op[q] # Idle
        /\ op[p].request = op[q].request
        /\ op[p].name = "search"
        /\ op[p].edited
        /\ op[q].pc = "done" /\ ~op[q].edited
        /\ ret[p].items[1].text = EditedText
        /\ ret[q].items[1].text = docs[StoredPosition(ret[q].items[1])].text
        /\ ret[q].items[1].text # EditedText

---------------------------------------------------------------------------
(* initialize_indexer step by step: the two writes of save_index are two
   steps, a run can be interrupted between them, and the dataset of the hub
   can be replaced between two runs *)

RunDatasets == { <<ValidRow>>, <<ValidRow, RenamedRow, HindiRow>> }

InitRuns ==
    /\ docs = <<>>
    /\ index = <<>>
    /\ tieAsc = TRUE
    /\ files = NoFiles
    /\ dataset \in RunDatasets
    /\ op = Idle
    /\ ret = None
    /\ calls = <<>>
    /\ raised = "none"

(* load_index, and on the build path load_dataset, create_embeddings and
   build_faiss_index: everything before save_index *)
StartRun(env) ==
    /\ op = Idle
    /\ calls' = <<>>
    /\ IF LoadSucceeds(files, env)
       THEN /\ op' = [name |-> "initialize_indexer", env |-> env, pc |-> "done",
                      verses |-> <<>>]
            /\ ret' = InitializeValue(files, dataset, env)
            /\ raised' = "none"
       ELSE IF ~ReachesSave(dataset, env)
       THEN /\ op' = [name |-> "initialize_indexer", env |-> env, pc |-> "done",
                      verses |-> <<>>]
            /\ ret' = None
            /\ raised' = "RuntimeError"
       ELSE /\ op' = [name |-> "initialize_indexer", env |-> env,
                      pc |-> "write_index",
                      verses |-> LoadDataset(dataset, env.dataset_ok).verses]
            /\ ret' = None
            /\ raised' = "none"
    /\ UNCHANGED <<docs, index, tieAsc, files, dataset>>

(* faiss.write_index(index, self.index_file) *)
WriteIndexFile ==
    /\ op # Idle
    /\ op.pc = "write_index"
    /\ files' = [files EXCEPT !.index =
                    Written(files.index, IndexFile(BuildVectors(op.verses)),
                            op.env.write_index)]
    /\ IF op.env.write_index = "ok"
       THEN /\ op' = [op EXCEPT !.pc = "write_docs"]
            /\ raised' = "none"
       ELSE /\ op' = [op EXCEPT !.pc = "done"]
            /\ raised' = "RuntimeError"
    /\ UNCHANGED <<docs, index, tieAsc, dataset, ret, calls>>

(* with open(self.docs_file, 'wb') as f: pickle.dump(docs, f) *)
WriteDocsFile ==
    /\ op # Idle
    /\ op.pc = "write_docs"
    /\ files' = [files EXCEPT !.docs =
                    Written(files.docs, DocsFile(op.verses), op.env.write_docs)]
    /\ op' = [op EXCEPT !.pc = "done"]
    /\ IF op.env.write_docs = "ok"
       THEN /\ ret' = [kind |-> "indexer", index |-> BuildVectors(op.verses),
                       docs |-> op.verses]
            /\ raised' = "none"
       ELSE /\ ret' = None
            /\ raised' = "RuntimeError"
    /\ UNCHANGED <<docs, index, tieAsc, dataset, calls>>

(* The process is killed before or between the two writes *)
Crash ==
    /\ op # Idle
    /\ op.pc \in {"write_index", "write_docs"}
    /\ op' = Idle
    /\ ret' = None
    /\ raised' = "none"
    /\ UNCHANGED <<docs, index, tieAsc, files, dataset, calls>>

(* The hub serves another revision of the dataset to the next run *)
DatasetChanges ==
    /\ op = Idle
    /\ dataset' \in RunDatasets \ {dataset}
    /\ UNCHANGED <<docs, index, tieAsc, files, op, ret, calls, raised>>

RunReturns ==
    /\ op # Idle
    /\ op.pc = "done"
    /\ Return

NextRuns ==
    \/ \E env \in Environments : StartRun(env)
    \/ WriteIndexFile
    \/ WriteDocsFile
    \/ Crash
    \/ DatasetChanges
    \/ RunReturns

SpecRuns == InitRuns /\ [][NextRuns]_vars

(* C30 as stated: after any sequence of initialize_indexer runs, including
   runs that crash or fail between writing the index artifact and writing
   the verse-list artifact, every run that succeeds returns an index and a
   verse list of the same build: as many vectors as records, and index
   position i is the vector of record i. *)
C30_IndexMatchesDocs ==
    (Ran /\ op.pc = "done" /\ raised = "none") =>
        /\ Len(ret.index) = Len(ret.docs)
        /\ \A i \in 1..Len(ret.index) :
               ret.index[i] = Embedding(ret.docs[i].text)

====
